---- MODULE Spec2Model ----
(***************************************************************************)
(* Model of the CRAS Bluetooth policy engine (cras_bt_policy.c): the three *)
(* policy lists (profile switch, suspend, connection watch), the timers    *)
(* they arm in the timer manager and the collaborator calls they make.     *)
(*                                                                         *)
(* The policy lists are utlist doubly-linked lists; they are modelled at   *)
(* pointer level (prev/next fields of heap records) because                *)
(* switch_profile_with_delay appends a record that may already be linked.  *)
(* Time is counted in milliseconds; a timer fires when its remaining time  *)
(* is 0 and time does not pass while an expired timer is undispatched.     *)
(* Under Spec the allocator never fails.                                   *)
(***************************************************************************)
EXTENDS Integers, Sequences, FiniteSets, TLC

\* ------------------------------------------------------------- bounds
PoolSize == 3
MaxOps == 3
MaxFires == 2
MaxSwitchOps == 4
MaxWatchOps == 2
MaxStreamOps == 7
MaxScoOps == 6
MaxTicks == 31

\* ---------------------------------------------------- program constants
NULL == 0
CONN_WATCH_PERIOD_MS == 2000
CONN_WATCH_MAX_RETRIES == 30
PROFILE_SWITCH_DELAY_MS == 500

A2DP_LONG_TX_FAILURE == 0
A2DP_TX_FATAL_ERROR == 1
CONN_WATCH_TIME_OUT == 2
HFP_SCO_SOCKET_ERROR == 3
HFP_AG_START_FAILURE == 4
UNEXPECTED_PROFILE_DROP == 5

\* enum BT_POLICY_COMMAND.
BT_POLICY_SWITCH_PROFILE == 0
BT_POLICY_SCHEDULE_SUSPEND == 1
BT_POLICY_CANCEL_SUSPEND == 2

Devices == {1, 2}
Slots == 1..PoolSize
Reasons == A2DP_LONG_TX_FAILURE..UNEXPECTED_PROFILE_DROP

\* Reasons and delays the environment posts with a SCHEDULE_SUSPEND message.
PostedReasons == {A2DP_LONG_TX_FAILURE, HFP_SCO_SOCKET_ERROR}
PostedDelays == {0, 200}

\* The threads that send policy messages, and the bt_iodev a sender passes
\* with a SWITCH_PROFILE message.
Senders == {"audio thread", "sco poller"}
PostedIodevs == {7}

\* Result of a list search that never returns (the list has become cyclic).
LOOPS == -1

\* ------------------------------------------------------ heap records
\* One record shape serves the three struct types; a struct's absent
\* fields stay 0.  calloc returns a record with every field 0.
ZeroRec ==
  [live |-> FALSE, device |-> NULL, timer |-> NULL, prev |-> NULL,
   next |-> NULL, suspend_reason |-> 0, retries_left |-> 0]

EmptyMem == [s \in Slots |-> ZeroRec]

FreeSlots(mem) == {s \in Slots : ~mem[s].live}

Min(S) == CHOOSE x \in S : \A y \in S : x <= y

\* free(): the memory keeps its bytes until it is allocated again.
free(mem, p) == [mem EXCEPT ![p].live = FALSE]

\* ------------------------------------------------------ utlist macros
RECURSIVE DL_WALK(_, _, _, _)
DL_WALK(mem, elt, device, fuel) ==
  IF elt = NULL THEN NULL
  ELSE IF mem[elt].device = device THEN elt
  ELSE IF fuel = 0 THEN LOOPS
  ELSE DL_WALK(mem, mem[elt].next, device, fuel - 1)

\* DL_SEARCH_SCALAR(head, out, device, val): first element, following next
\* from head, whose device field is val; NULL when the walk ends; a walk
\* over more than PoolSize elements has entered a cycle and never ends.
DL_SEARCH_SCALAR(mem, head, device) == DL_WALK(mem, head, device, PoolSize)

\* DL_APPEND(head, add).
DL_APPEND(mem, head, add) ==
  IF head # NULL
  THEN LET m1 == [mem EXCEPT ![add].prev = mem[head].prev]
           tail == m1[head].prev
       IN IF tail = NULL
          THEN [mem |-> m1, head |-> head, status |-> "segv"]
          ELSE LET m2 == [m1 EXCEPT ![tail].next = add]
                   m3 == [m2 EXCEPT ![head].prev = add]
                   m4 == [m3 EXCEPT ![add].next = NULL]
               IN [mem |-> m4, head |-> head, status |-> "run"]
  ELSE [mem |-> [mem EXCEPT ![add].prev = add, ![add].next = NULL],
        head |-> add, status |-> "run"]

\* DL_DELETE(head, del).
DL_DELETE(mem, head, del) ==
  IF mem[del].prev = NULL
  THEN [mem |-> mem, head |-> head, status |-> "segv"]
  ELSE IF mem[del].prev = del
  THEN [mem |-> mem, head |-> NULL, status |-> "run"]
  ELSE IF del = head
  THEN IF mem[del].next = NULL
       THEN [mem |-> mem, head |-> head, status |-> "segv"]
       ELSE [mem |-> [mem EXCEPT ![mem[del].next].prev = mem[del].prev],
             head |-> mem[del].next, status |-> "run"]
  ELSE LET m1 == [mem EXCEPT ![mem[del].prev].next = mem[del].next]
       IN IF m1[del].next # NULL
          THEN [mem |-> [m1 EXCEPT ![m1[del].next].prev = m1[del].prev],
                head |-> head, status |-> "run"]
          ELSE IF head = NULL
          THEN [mem |-> m1, head |-> head, status |-> "segv"]
          ELSE [mem |-> [m1 EXCEPT ![head].prev = m1[del].prev],
                head |-> head, status |-> "run"]

\* The elements a forward walk from head visits, in order (cut after
\* PoolSize + 1 elements: a longer walk is in a cycle).
RECURSIVE ListFrom(_, _, _)
ListFrom(mem, elt, fuel) ==
  IF elt = NULL \/ fuel = 0 THEN <<>>
  ELSE <<elt>> \o ListFrom(mem, mem[elt].next, fuel - 1)

ListOf(mem, head) == ListFrom(mem, head, PoolSize + 1)

\* ------------------------------------------------------ timer manager
\* struct cras_tm: the pending timers in registration order.
NewHandle(tm) ==
  Min({h \in 1..(Len(tm) + 1) : \A i \in 1..Len(tm) : tm[i].id # h})

cras_tm_create_timer(tm, ms, cb, arg) ==
  Append(tm, [id |-> NewHandle(tm), left |-> ms, cb |-> cb, arg |-> arg])

\* Cancelling a handle that is not pending (NULL, or already dispatched)
\* is a no-op.
cras_tm_cancel_timer(tm, h) == SelectSeq(tm, LAMBDA t : t.id # h)

\* ------------------------------------------------------------- state
VARIABLES
  switch_recs,              \* heap of struct profile_switch_policy
  profile_switch_policies,  \* list head
  suspend_recs,             \* heap of struct suspend_policy
  suspend_policies,         \* list head
  watch_recs,               \* heap of struct connection_watch
  conn_watch_policies,      \* list head
  tm,                       \* the timer manager's pending timers
  status,                   \* "run", "segv" (NULL dereference), "hang"
  calls,                    \* collaborator calls made by the last step
  last,                     \* the last step: operation and arguments
  ticks,                    \* history: per device, the conn_watch_cb runs
                            \* since its watch was last started
  ops,                      \* number of external requests handled so far
  fired,                    \* number of timer callbacks counted so far
  handlers,                 \* main message bus: the message types that
                            \* have a handler registered
  bus,                      \* main message bus: per sender, the messages
                            \* sent and not yet dispatched, oldest first
  dispatched,               \* history: the messages the main thread has
                            \* taken off the bus, in dispatch order
  volume,                   \* an iodev's active node volume, the system
                            \* volume and the last adjusted volume
  streams,                  \* an iodev's buf_state: per attached stream its
                            \* write offset (and write history), and the
                            \* last result of all_streams_written
  sco,                      \* a BT device's SCO connection: reference
                            \* count, socket, and the history of gets/puts
  gain                      \* an iodev's software volume flag and active
                            \* node, the system gain and volume, and the
                            \* last result of a gain or volume query

\* The variables of the iodev and of the BT device's SCO connection.
audio == <<volume, streams, sco, gain>>

vars ==
  <<switch_recs, profile_switch_policies, suspend_recs, suspend_policies,
    watch_recs, conn_watch_policies, tm, status, calls, last, ticks, ops,
    fired, handlers, bus, dispatched, volume, streams, sco, gain>>

\* The state the C functions read and write, as one value.
Cur ==
  [switch_recs |-> switch_recs,
   profile_switch_policies |-> profile_switch_policies,
   suspend_recs |-> suspend_recs,
   suspend_policies |-> suspend_policies,
   watch_recs |-> watch_recs,
   conn_watch_policies |-> conn_watch_policies,
   tm |-> tm,
   status |-> status,
   calls |-> <<>>,
   calloc_fails |-> FALSE]

Commit(S) ==
  /\ switch_recs' = S.switch_recs
  /\ profile_switch_policies' = S.profile_switch_policies
  /\ suspend_recs' = S.suspend_recs
  /\ suspend_policies' = S.suspend_policies
  /\ watch_recs' = S.watch_recs
  /\ conn_watch_policies' = S.conn_watch_policies
  /\ tm' = S.tm
  /\ status' = S.status
  /\ calls' = S.calls

\* calloc(1, sizeof(*policy)): a zeroed record of the pool mem, or NULL when
\* the allocation fails.
calloc(S, mem) == IF S.calloc_fails THEN NULL ELSE Min(FreeSlots(mem))

\* A collaborator call: function, device, and its further argument (a
\* direction, a UUID, or the reason logged).
Call(S, f, device, arg) ==
  [S EXCEPT !.calls = Append(@, [f |-> f, dev |-> device, arg |-> arg])]

\* The rest of a function body runs only while the process is alive.
Running(S) == S.status = "run"

\* ---------------------------------------------------- profile switch
profile_switch_delay_cb(S, policy, has_output) ==
  LET device == S.switch_recs[policy].device
      S1 == IF has_output
            THEN Call(Call(S, "update_active_node", device, "OUTPUT"),
                      "cras_iodev_list_resume_dev", device, "OUTPUT")
            ELSE S
      L == DL_DELETE(S1.switch_recs, S1.profile_switch_policies, policy)
  IN IF L.status # "run"
     THEN [S1 EXCEPT !.status = L.status]
     ELSE [S1 EXCEPT !.switch_recs = free(L.mem, policy),
                     !.profile_switch_policies = L.head]

\* slot: the record calloc returns when the device has no record yet (NULL
\* when the allocation fails: "policy->device = device" then writes through
\* a null pointer).
switch_profile_with_delay(S, device, slot) ==
  LET found == DL_SEARCH_SCALAR(S.switch_recs, S.profile_switch_policies,
                                device)
  IN IF found = LOOPS
     THEN [S EXCEPT !.status = "hang"]
     ELSE IF found = NULL /\ slot = NULL
     THEN [S EXCEPT !.status = "segv"]
     ELSE
       LET policy == IF found # NULL THEN found ELSE slot
           tm1 == IF found # NULL
                  THEN cras_tm_cancel_timer(S.tm, S.switch_recs[found].timer)
                  ELSE S.tm
           m1 == IF found # NULL
                 THEN [S.switch_recs EXCEPT ![found].timer = NULL]
                 ELSE [S.switch_recs EXCEPT
                         ![slot] = [ZeroRec EXCEPT !.live = TRUE]]
           m2 == [m1 EXCEPT ![policy].device = device,
                            ![policy].timer = NewHandle(tm1)]
           tm2 == cras_tm_create_timer(tm1, PROFILE_SWITCH_DELAY_MS,
                                       "profile_switch_delay_cb", policy)
           L == DL_APPEND(m2, S.profile_switch_policies, policy)
       IN [S EXCEPT !.switch_recs = L.mem,
                    !.profile_switch_policies = L.head,
                    !.tm = tm2,
                    !.status = L.status]

switch_profile(S, device, has_output, has_input, slot) ==
  LET S1 == IF has_output
            THEN Call(S, "cras_iodev_list_suspend_dev", device, "OUTPUT")
            ELSE S
      S2 == IF has_input
            THEN Call(S1, "cras_iodev_list_suspend_dev", device, "INPUT")
            ELSE S1
      S3 == IF has_output
            THEN switch_profile_with_delay(S2, device, slot)
            ELSE S2
  IN IF has_input /\ Running(S3)
     THEN Call(Call(S3, "update_active_node", device, "INPUT"),
               "cras_iodev_list_resume_dev", device, "INPUT")
     ELSE S3

\* ------------------------------------------------------------ suspend
\* The message suspend_cb logs for each reason.
ReasonText ==
  [r \in Reasons |->
     CASE r = A2DP_LONG_TX_FAILURE -> "Suspend dev: A2DP long Tx failure"
       [] r = A2DP_TX_FATAL_ERROR -> "Suspend dev: A2DP Tx fatal error"
       [] r = CONN_WATCH_TIME_OUT -> "Suspend dev: Conn watch times out"
       [] r = HFP_SCO_SOCKET_ERROR -> "Suspend dev: SCO socket error"
       [] r = HFP_AG_START_FAILURE -> "Suspend dev: HFP AG start failure"
       [] r = UNEXPECTED_PROFILE_DROP ->
            "Suspend dev: Unexpected profile drop"]

\* Faulty variant of suspend_cb, for the sensitivity of C8: the device is
\* disconnected before HFP-AG is suspended.
suspend_cb_disconnect_first(S, policy) ==
  LET device == S.suspend_recs[policy].device
      S0 == Call(S, "syslog", device,
                 ReasonText[S.suspend_recs[policy].suspend_reason])
      S1 == Call(Call(Call(S0,
                 "cras_a2dp_suspend_connected_device", device, ""),
                 "cras_bt_device_disconnect", device, ""),
                 "cras_hfp_ag_suspend_connected_device", device, "")
      L == DL_DELETE(S1.suspend_recs, S1.suspend_policies, policy)
  IN IF L.status # "run"
     THEN [S1 EXCEPT !.status = L.status]
     ELSE [S1 EXCEPT !.suspend_recs = free(L.mem, policy),
                     !.suspend_policies = L.head]

suspend_cb(S, policy) ==
  LET device == S.suspend_recs[policy].device
      S0 == Call(S, "syslog", device,
                 ReasonText[S.suspend_recs[policy].suspend_reason])
      S1 == Call(Call(Call(S0,
                 "cras_a2dp_suspend_connected_device", device, ""),
                 "cras_hfp_ag_suspend_connected_device", device, ""),
                 "cras_bt_device_disconnect", device, "")
      L == DL_DELETE(S1.suspend_recs, S1.suspend_policies, policy)
  IN IF L.status # "run"
     THEN [S1 EXCEPT !.status = L.status]
     ELSE [S1 EXCEPT !.suspend_recs = free(L.mem, policy),
                     !.suspend_policies = L.head]

\* Faulty variant of schedule_suspend, for the sensitivity of C2: the
\* "if (policy) return" is missing.
schedule_suspend_no_return(S, device, msec, suspend_reason) ==
  LET policy == Min(FreeSlots(S.suspend_recs))
      m1 == [S.suspend_recs EXCEPT
               ![policy] = [ZeroRec EXCEPT
                              !.live = TRUE,
                              !.device = device,
                              !.suspend_reason = suspend_reason,
                              !.timer = NewHandle(S.tm)]]
      tm1 == cras_tm_create_timer(S.tm, msec, "suspend_cb", policy)
      L == DL_APPEND(m1, S.suspend_policies, policy)
  IN IF FreeSlots(S.suspend_recs) = {}
     THEN [S EXCEPT !.status = "segv"]
     ELSE [S EXCEPT !.suspend_recs = L.mem,
                    !.suspend_policies = L.head,
                    !.tm = tm1,
                    !.status = L.status]

schedule_suspend(S, device, msec, suspend_reason) ==
  LET found == DL_SEARCH_SCALAR(S.suspend_recs, S.suspend_policies, device)
  IN IF found = LOOPS
     THEN [S EXCEPT !.status = "hang"]
     ELSE IF found # NULL
     THEN S
     ELSE IF calloc(S, S.suspend_recs) = NULL
     THEN [S EXCEPT !.status = "segv"]
     ELSE
       LET policy == calloc(S, S.suspend_recs)
           m1 == [S.suspend_recs EXCEPT
                    ![policy] = [ZeroRec EXCEPT
                                   !.live = TRUE,
                                   !.device = device,
                                   !.suspend_reason = suspend_reason,
                                   !.timer = NewHandle(S.tm)]]
           tm1 == cras_tm_create_timer(S.tm, msec, "suspend_cb", policy)
           L == DL_APPEND(m1, S.suspend_policies, policy)
       IN [S EXCEPT !.suspend_recs = L.mem,
                    !.suspend_policies = L.head,
                    !.tm = tm1,
                    !.status = L.status]

\* Faulty variant of cancel_suspend, for the sensitivity of C9: the
\* record is deleted and freed but its timer is not cancelled.
cancel_suspend_keep_timer(S, device) ==
  LET found == DL_SEARCH_SCALAR(S.suspend_recs, S.suspend_policies, device)
  IN IF found = LOOPS
     THEN [S EXCEPT !.status = "hang"]
     ELSE IF found = NULL
     THEN S
     ELSE
       LET L == DL_DELETE(S.suspend_recs, S.suspend_policies, found)
       IN IF L.status # "run"
          THEN [S EXCEPT !.status = L.status]
          ELSE [S EXCEPT !.suspend_recs = free(L.mem, found),
                         !.suspend_policies = L.head]

cancel_suspend(S, device) ==
  LET found == DL_SEARCH_SCALAR(S.suspend_recs, S.suspend_policies, device)
  IN IF found = LOOPS
     THEN [S EXCEPT !.status = "hang"]
     ELSE IF found = NULL
     THEN S
     ELSE
       LET tm1 == cras_tm_cancel_timer(S.tm, S.suspend_recs[found].timer)
           L == DL_DELETE(S.suspend_recs, S.suspend_policies, found)
       IN IF L.status # "run"
          THEN [S EXCEPT !.tm = tm1, !.status = L.status]
          ELSE [S EXCEPT !.tm = tm1,
                         !.suspend_recs = free(L.mem, found),
                         !.suspend_policies = L.head]

\* --------------------------------------------------- connection watch
\* BTREG predicates over a device's profile bitmasks (sets of profiles).
cras_bt_device_supports_profile(profiles, profile) == profile \in profiles

cras_bt_device_is_profile_connected(connected, profile) ==
  profile \in connected

\* Profiles a device may advertise or have connected.  "OTHER" stands for
\* any profile bit besides A2DP sink and HFP hands-free.
Profiles == {"A2DP_SINK", "HFP_HANDSFREE", "OTHER"}

\* What the registry and the HFP audio gateway answer during one tick:
\* device->profiles, device->connected_profiles, cras_hfp_ag_start's rc.
\* The inputs the callback does not read are left out: the connected
\* profiles of a device that advertises none, and the rc of a
\* cras_hfp_ag_start that is not called.
TickInputs ==
  {in \in [profiles : SUBSET Profiles,
           connected : SUBSET {"A2DP_SINK", "HFP_HANDSFREE"},
           hfp_rc : {0, -1}] :
     /\ "OTHER" \in in.profiles => in.profiles = {"OTHER"}
     /\ in.profiles = {} => in.connected = {}
     /\ in.hfp_rc # 0
        => /\ "HFP_HANDSFREE" \in in.connected
           /\ "HFP_HANDSFREE" \in in.profiles
           /\ ("A2DP_SINK" \in in.profiles) = ("A2DP_SINK" \in in.connected)}

\* done_with_policy: the record leaves the list and is freed.
done_with_policy(S, policy) ==
  LET L == DL_DELETE(S.watch_recs, S.conn_watch_policies, policy)
  IN IF L.status # "run"
     THEN [S EXCEPT !.status = L.status]
     ELSE [S EXCEPT !.watch_recs = free(L.mem, policy),
                    !.conn_watch_policies = L.head]

\* Faulty variant of conn_watch_connect_pending, for the sensitivity of
\* C7: the "if (a2dp_supported && hfp_supported)" is missing.
conn_watch_connect_pending_unguarded(S, policy, in) ==
  LET device == S.watch_recs[policy].device
      a2dp_connected ==
        cras_bt_device_is_profile_connected(in.connected, "A2DP_SINK")
      hfp_connected ==
        cras_bt_device_is_profile_connected(in.connected, "HFP_HANDSFREE")
      S1 == IF ~a2dp_connected /\ hfp_connected
            THEN Call(S, "cras_bt_device_connect_profile", device,
                      "A2DP_SINK_UUID")
            ELSE S
  IN IF a2dp_connected /\ ~hfp_connected
     THEN Call(S1, "cras_bt_device_connect_profile", device, "HFP_HF_UUID")
     ELSE S1

\* conn_watch_cb, "if (a2dp_supported && hfp_supported)": ask BlueZ to
\* connect the pending profile.
conn_watch_connect_pending(S, policy, in) ==
  LET device == S.watch_recs[policy].device
      a2dp_supported ==
        cras_bt_device_supports_profile(in.profiles, "A2DP_SINK")
      a2dp_connected ==
        cras_bt_device_is_profile_connected(in.connected, "A2DP_SINK")
      hfp_supported ==
        cras_bt_device_supports_profile(in.profiles, "HFP_HANDSFREE")
      hfp_connected ==
        cras_bt_device_is_profile_connected(in.connected, "HFP_HANDSFREE")
      S1 == IF a2dp_supported /\ hfp_supported /\ ~a2dp_connected
               /\ hfp_connected
            THEN Call(S, "cras_bt_device_connect_profile", device,
                      "A2DP_SINK_UUID")
            ELSE S
  IN IF a2dp_supported /\ hfp_supported /\ a2dp_connected /\ ~hfp_connected
     THEN Call(S1, "cras_bt_device_connect_profile", device, "HFP_HF_UUID")
     ELSE S1

\* Faulty variant of conn_watch_retry, for the sensitivity of C4:
\* "if (policy->retries_left--)" tests the count before decrementing it.
conn_watch_retry_post_decrement(S, policy) ==
  LET device == S.watch_recs[policy].device
      before == S.watch_recs[policy].retries_left
      S1 == [Call(S, "syslog", device, "conn_watch_retries: %d")
               EXCEPT !.watch_recs[policy].retries_left = before - 1]
  IN IF before # 0
     THEN [S1 EXCEPT
             !.watch_recs[policy].timer = NewHandle(S1.tm),
             !.tm = cras_tm_create_timer(S1.tm, CONN_WATCH_PERIOD_MS,
                                         "conn_watch_cb", policy)]
     ELSE schedule_suspend(
            Call(S1, "syslog", device, "Connection watch timeout."),
            device, 0, CONN_WATCH_TIME_OUT)

\* Faulty variant of conn_watch_retry, for the sensitivity of C21:
\* "policy->retries_left -= 2" consumes two retries on one tick.
conn_watch_retry_skips_one(S, policy) ==
  LET device == S.watch_recs[policy].device
      retries == S.watch_recs[policy].retries_left - 2
      S1 == [Call(S, "syslog", device, "conn_watch_retries: %d")
               EXCEPT !.watch_recs[policy].retries_left = retries]
  IN IF retries # 0
     THEN [S1 EXCEPT
             !.watch_recs[policy].timer = NewHandle(S1.tm),
             !.tm = cras_tm_create_timer(S1.tm, CONN_WATCH_PERIOD_MS,
                                         "conn_watch_cb", policy)]
     ELSE schedule_suspend(
            Call(S1, "syslog", device, "Connection watch timeout."),
            device, 0, CONN_WATCH_TIME_OUT)

\* Faulty variant of conn_watch_retry, for the sensitivity of C29: the
\* time-out goes on to done_with_policy, which removes the record.
conn_watch_retry_timeout_frees(S, policy) ==
  LET device == S.watch_recs[policy].device
      retries == S.watch_recs[policy].retries_left - 1
      S1 == [Call(S, "syslog", device, "conn_watch_retries: %d")
               EXCEPT !.watch_recs[policy].retries_left = retries]
      S2 == schedule_suspend(
              Call(S1, "syslog", device, "Connection watch timeout."),
              device, 0, CONN_WATCH_TIME_OUT)
  IN IF retries # 0
     THEN [S1 EXCEPT
             !.watch_recs[policy].timer = NewHandle(S1.tm),
             !.tm = cras_tm_create_timer(S1.tm, CONN_WATCH_PERIOD_MS,
                                         "conn_watch_cb", policy)]
     ELSE IF Running(S2) THEN done_with_policy(S2, policy) ELSE S2

\* Faulty variant of conn_watch_retry, for the sensitivity of C31:
\* retries_left is tested but not decremented.
conn_watch_retry_no_decrement(S, policy) ==
  LET device == S.watch_recs[policy].device
      retries == S.watch_recs[policy].retries_left
      S1 == Call(S, "syslog", device, "conn_watch_retries: %d")
  IN IF retries # 0
     THEN [S1 EXCEPT
             !.watch_recs[policy].timer = NewHandle(S1.tm),
             !.tm = cras_tm_create_timer(S1.tm, CONN_WATCH_PERIOD_MS,
                                         "conn_watch_cb", policy)]
     ELSE schedule_suspend(
            Call(S1, "syslog", device, "Connection watch timeout."),
            device, 0, CONN_WATCH_TIME_OUT)

\* conn_watch_cb, a profile is still missing its connection: arm the timer
\* to retry, or time out.
conn_watch_retry(S, policy) ==
  LET device == S.watch_recs[policy].device
      retries == S.watch_recs[policy].retries_left - 1
      S1 == [Call(S, "syslog", device, "conn_watch_retries: %d")
               EXCEPT !.watch_recs[policy].retries_left = retries]
  IN IF retries # 0
     THEN [S1 EXCEPT
             !.watch_recs[policy].timer = NewHandle(S1.tm),
             !.tm = cras_tm_create_timer(S1.tm, CONN_WATCH_PERIOD_MS,
                                         "conn_watch_cb", policy)]
     ELSE schedule_suspend(
            Call(S1, "syslog", device, "Connection watch timeout."),
            device, 0, CONN_WATCH_TIME_OUT)

\* Faulty variant of conn_watch_start_profiles, for the sensitivity of C5:
\* HFP-AG is started before A2DP.
conn_watch_start_profiles_hfp_first(S, policy, in) ==
  LET device == S.watch_recs[policy].device
      a2dp_connected ==
        cras_bt_device_is_profile_connected(in.connected, "A2DP_SINK")
      hfp_connected ==
        cras_bt_device_is_profile_connected(in.connected, "HFP_HANDSFREE")
      S1 == Call(S, "cras_bt_device_remove_conflict", device, "")
      S2 == IF hfp_connected
            THEN Call(S1, "cras_hfp_ag_start", device, "")
            ELSE S1
      S3 == IF hfp_connected /\ in.hfp_rc # 0
            THEN schedule_suspend(
                   Call(S2, "syslog", device,
                        "Start audio gateway failed, rc %d"),
                   device, 0, HFP_AG_START_FAILURE)
            ELSE S2
      S4 == IF a2dp_connected /\ Running(S3)
            THEN Call(S3, "cras_a2dp_start", device, "")
            ELSE S3
  IN IF ~Running(S4)
     THEN S4
     ELSE Call(S4, "cras_bt_device_set_nodes_plugged", device, "")

\* Faulty variant of conn_watch_start_profiles, for the sensitivity of C23:
\* a failed cras_hfp_ag_start skips cras_bt_device_set_nodes_plugged.
conn_watch_start_profiles_fail_unplugged(S, policy, in) ==
  LET device == S.watch_recs[policy].device
      a2dp_connected ==
        cras_bt_device_is_profile_connected(in.connected, "A2DP_SINK")
      hfp_connected ==
        cras_bt_device_is_profile_connected(in.connected, "HFP_HANDSFREE")
      S1 == Call(S, "cras_bt_device_remove_conflict", device, "")
      S2 == IF a2dp_connected
            THEN Call(S1, "cras_a2dp_start", device, "")
            ELSE S1
      S3 == IF hfp_connected
            THEN Call(S2, "cras_hfp_ag_start", device, "")
            ELSE S2
      S4 == IF hfp_connected /\ in.hfp_rc # 0
            THEN schedule_suspend(
                   Call(S3, "syslog", device,
                        "Start audio gateway failed, rc %d"),
                   device, 0, HFP_AG_START_FAILURE)
            ELSE S3
  IN IF ~Running(S4) \/ (hfp_connected /\ in.hfp_rc # 0)
     THEN S4
     ELSE Call(S4, "cras_bt_device_set_nodes_plugged", device, "")

\* conn_watch_cb, the expected profiles are all connected: remove the
\* conflicting devices, start A2DP and HFP, mark the nodes plugged.
conn_watch_start_profiles(S, policy, in) ==
  LET device == S.watch_recs[policy].device
      a2dp_connected ==
        cras_bt_device_is_profile_connected(in.connected, "A2DP_SINK")
      hfp_connected ==
        cras_bt_device_is_profile_connected(in.connected, "HFP_HANDSFREE")
      S1 == Call(S, "cras_bt_device_remove_conflict", device, "")
      S2 == IF a2dp_connected
            THEN Call(S1, "cras_a2dp_start", device, "")
            ELSE S1
      S3 == IF hfp_connected
            THEN Call(S2, "cras_hfp_ag_start", device, "")
            ELSE S2
      S4 == IF hfp_connected /\ in.hfp_rc # 0
            THEN schedule_suspend(
                   Call(S3, "syslog", device,
                        "Start audio gateway failed, rc %d"),
                   device, 0, HFP_AG_START_FAILURE)
            ELSE S3
  IN IF ~Running(S4)
     THEN S4
     ELSE Call(S4, "cras_bt_device_set_nodes_plugged", device, "")

\* Faulty variant of conn_watch_cb, for the sensitivity of C6: the
\* "if (!device->profiles) goto done_with_policy" is missing.
conn_watch_cb_no_profiles_check(S, policy, in) ==
  LET a2dp_supported ==
        cras_bt_device_supports_profile(in.profiles, "A2DP_SINK")
      a2dp_connected ==
        cras_bt_device_is_profile_connected(in.connected, "A2DP_SINK")
      hfp_supported ==
        cras_bt_device_supports_profile(in.profiles, "HFP_HANDSFREE")
      hfp_connected ==
        cras_bt_device_is_profile_connected(in.connected, "HFP_HANDSFREE")
      S0 == [S EXCEPT !.watch_recs[policy].timer = NULL]
      S1 == conn_watch_connect_pending(S0, policy, in)
  IN IF a2dp_supported # a2dp_connected \/ hfp_supported # hfp_connected
     THEN conn_watch_retry(S1, policy)
     ELSE
       LET S2 == conn_watch_start_profiles(S1, policy, in)
       IN IF ~Running(S2)
          THEN S2
          ELSE done_with_policy(S2, policy)

\* Faulty variant of conn_watch_cb, for the sensitivity of C28: the
\* "policy->timer = NULL" is missing.
conn_watch_cb_keeps_timer(S, policy, in) ==
  LET a2dp_supported ==
        cras_bt_device_supports_profile(in.profiles, "A2DP_SINK")
      a2dp_connected ==
        cras_bt_device_is_profile_connected(in.connected, "A2DP_SINK")
      hfp_supported ==
        cras_bt_device_supports_profile(in.profiles, "HFP_HANDSFREE")
      hfp_connected ==
        cras_bt_device_is_profile_connected(in.connected, "HFP_HANDSFREE")
  IN IF in.profiles = {}
     THEN done_with_policy(S, policy)
     ELSE
       LET S1 == conn_watch_connect_pending(S, policy, in)
       IN IF a2dp_supported # a2dp_connected \/ hfp_supported # hfp_connected
          THEN conn_watch_retry(S1, policy)
          ELSE
            LET S2 == conn_watch_start_profiles(S1, policy, in)
            IN IF ~Running(S2)
               THEN S2
               ELSE done_with_policy(S2, policy)

conn_watch_cb(S, policy, in) ==
  LET a2dp_supported ==
        cras_bt_device_supports_profile(in.profiles, "A2DP_SINK")
      a2dp_connected ==
        cras_bt_device_is_profile_connected(in.connected, "A2DP_SINK")
      hfp_supported ==
        cras_bt_device_supports_profile(in.profiles, "HFP_HANDSFREE")
      hfp_connected ==
        cras_bt_device_is_profile_connected(in.connected, "HFP_HANDSFREE")
      S0 == [S EXCEPT !.watch_recs[policy].timer = NULL]
  IN IF in.profiles = {}
     THEN done_with_policy(S0, policy)
     ELSE
       LET S1 == conn_watch_connect_pending(S0, policy, in)
       IN IF a2dp_supported # a2dp_connected \/ hfp_supported # hfp_connected
          THEN conn_watch_retry(S1, policy)
          ELSE
            LET S2 == conn_watch_start_profiles(S1, policy, in)
            IN IF ~Running(S2)
               THEN S2
               ELSE done_with_policy(S2, policy)

\* Faulty variant of cras_bt_policy_start_connection_watch, for the
\* sensitivity of C10: the previous timer is not cancelled.
cras_bt_policy_start_connection_watch_no_cancel(S, device) ==
  LET found == DL_SEARCH_SCALAR(S.watch_recs, S.conn_watch_policies, device)
  IN IF found = LOOPS
     THEN [S EXCEPT !.status = "hang"]
     ELSE IF found = NULL /\ calloc(S, S.watch_recs) = NULL
     THEN [S EXCEPT !.status = "segv"]
     ELSE
       LET policy == IF found # NULL THEN found
                     ELSE calloc(S, S.watch_recs)
           L == IF found # NULL
                THEN [mem |-> S.watch_recs, head |-> S.conn_watch_policies,
                      status |-> "run"]
                ELSE DL_APPEND(
                       [S.watch_recs EXCEPT
                          ![policy] = [ZeroRec EXCEPT !.live = TRUE,
                                                      !.device = device]],
                       S.conn_watch_policies, policy)
       IN IF L.status # "run"
          THEN [S EXCEPT !.watch_recs = L.mem, !.status = L.status]
          ELSE [S EXCEPT
                  !.watch_recs =
                     [L.mem EXCEPT
                        ![policy].retries_left = CONN_WATCH_MAX_RETRIES,
                        ![policy].timer = NewHandle(S.tm)],
                  !.conn_watch_policies = L.head,
                  !.tm = cras_tm_create_timer(S.tm, CONN_WATCH_PERIOD_MS,
                                              "conn_watch_cb", policy)]

cras_bt_policy_start_connection_watch(S, device) ==
  LET found == DL_SEARCH_SCALAR(S.watch_recs, S.conn_watch_policies, device)
  IN IF found = LOOPS
     THEN [S EXCEPT !.status = "hang"]
     ELSE IF found = NULL /\ calloc(S, S.watch_recs) = NULL
     THEN [S EXCEPT !.status = "segv"]
     ELSE
       LET policy == IF found # NULL THEN found
                     ELSE calloc(S, S.watch_recs)
           tm1 == IF found # NULL
                  THEN cras_tm_cancel_timer(S.tm, S.watch_recs[found].timer)
                  ELSE S.tm
           L == IF found # NULL
                THEN [mem |-> S.watch_recs, head |-> S.conn_watch_policies,
                      status |-> "run"]
                ELSE DL_APPEND(
                       [S.watch_recs EXCEPT
                          ![policy] = [ZeroRec EXCEPT !.live = TRUE,
                                                      !.device = device]],
                       S.conn_watch_policies, policy)
       IN IF L.status # "run"
          THEN [S EXCEPT !.watch_recs = L.mem, !.status = L.status]
          ELSE [S EXCEPT
                  !.watch_recs =
                     [L.mem EXCEPT
                        ![policy].retries_left = CONN_WATCH_MAX_RETRIES,
                        ![policy].timer = NewHandle(tm1)],
                  !.conn_watch_policies = L.head,
                  !.tm = cras_tm_create_timer(tm1, CONN_WATCH_PERIOD_MS,
                                              "conn_watch_cb", policy)]

cras_bt_policy_stop_connection_watch(S, device) ==
  LET found == DL_SEARCH_SCALAR(S.watch_recs, S.conn_watch_policies, device)
  IN IF found = LOOPS
     THEN [S EXCEPT !.status = "hang"]
     ELSE IF found = NULL
     THEN S
     ELSE
       LET tm1 == cras_tm_cancel_timer(S.tm, S.watch_recs[found].timer)
           L == DL_DELETE(S.watch_recs, S.conn_watch_policies, found)
       IN IF L.status # "run"
          THEN [S EXCEPT !.tm = tm1, !.status = L.status]
          ELSE [S EXCEPT !.tm = tm1,
                         !.watch_recs = free(L.mem, found),
                         !.conn_watch_policies = L.head]

cras_bt_policy_remove_device(S, device) ==
  LET found == DL_SEARCH_SCALAR(S.switch_recs, S.profile_switch_policies,
                                device)
  IN IF found = LOOPS
     THEN [S EXCEPT !.status = "hang"]
     ELSE
       LET L == IF found = NULL
                THEN [mem |-> S.switch_recs,
                      head |-> S.profile_switch_policies, status |-> "run"]
                ELSE DL_DELETE(S.switch_recs, S.profile_switch_policies,
                               found)
       IN IF L.status # "run"
          THEN [S EXCEPT !.status = L.status]
          ELSE
            LET S1 == IF found = NULL THEN S
                      ELSE [S EXCEPT
                              !.switch_recs = free(L.mem, found),
                              !.profile_switch_policies = L.head,
                              !.tm = cras_tm_cancel_timer(
                                       S.tm, S.switch_recs[found].timer)]
                S2 == cancel_suspend(S1, device)
            IN IF Running(S2)
               THEN cras_bt_policy_stop_connection_watch(S2, device)
               ELSE S2

\* The last step.  policy is the record the handler's list search found
\* (NULL when none) and, for a timer callback, its arg.
NoArgs ==
  [op |-> "init", dev |-> NULL, msec |-> 0, reason |-> 0,
   has_output |-> FALSE, has_input |-> FALSE, policy |-> NULL,
   iodev |-> NULL, calloc_failed |-> FALSE, stream |-> NULL]

\* ---------------------------------------------------------------- iodev
\* No value (no call made yet).
NONE == -1

\* unsigned int arithmetic: a result outside the type's range wraps around.
\* The checker's integers are 32-bit signed, so the modulus is 2^30 in place
\* of 2^32; for the operands that occur (all below 2^30) a difference wraps
\* exactly when it does in the C type, to a value above every operand.
Uint(x) == x % (2^30)

\* The volumes the system and a node can be set to.
VolumeRange == 0..100

\* Faulty variant of cras_iodev_adjust_node_volume, for the sensitivity of
\* C17: the difference is returned without the comparison.
cras_iodev_adjust_node_volume_unclamped(node_volume, system_volume) ==
  LET node_vol_offset == Uint(100 - node_volume)
  IN Uint(system_volume - node_vol_offset)

cras_iodev_adjust_node_volume(node_volume, system_volume) ==
  LET node_vol_offset == Uint(100 - node_volume)
  IN IF system_volume > node_vol_offset
     THEN Uint(system_volume - node_vol_offset)
     ELSE 0


\* struct cras_iodev and its struct cras_ionode, as the gain and volume
\* queries read them: the device's software_volume_needed flag and
\* active_node pointer (NULL or the node), and the node's volume,
\* capture_gain, software_volume_needed flag and max_software_gain.
\* result is the last query made and the value it returned.
Flags == {0, 1}

NodeGains == {-2000, 0, 2000}

SystemGains == {-4000, 0, 4000}

SomeVolumes == {0, 50, 100}

TheNode == 1

NoResult == [f |-> "none", value |-> 0]

NoGain ==
  [iodev |-> [software_volume_needed |-> 0, active_node |-> NULL],
   node |-> [volume |-> 100, capture_gain |-> 0,
             software_volume_needed |-> 0, max_software_gain |-> 0],
   system_gain |-> 0, system_volume |-> 100, result |-> NoResult]

\* dev: the struct cras_iodev; nodes: the nodes its active_node can point
\* to, by pointer.
cras_iodev_adjust_active_node_volume(dev, nodes, system_volume) ==
  IF dev.active_node = NULL
  THEN system_volume
  ELSE cras_iodev_adjust_node_volume(nodes[dev.active_node].volume,
                                     system_volume)

cras_iodev_adjust_active_node_gain(dev, nodes, system_gain) ==
  IF dev.active_node = NULL
  THEN system_gain
  ELSE nodes[dev.active_node].capture_gain + system_gain

\* Faulty variant of cras_iodev_software_volume_needed, for the sensitivity
\* of C34: the active node's flag is not consulted.
cras_iodev_software_volume_needed_device_only(dev, nodes) ==
  IF dev.software_volume_needed # 0
  THEN 1
  ELSE 0

cras_iodev_software_volume_needed(dev, nodes) ==
  IF dev.software_volume_needed # 0
  THEN 1
  ELSE IF dev.active_node = NULL
  THEN 0
  ELSE nodes[dev.active_node].software_volume_needed

cras_iodev_maximum_software_gain(dev, nodes) ==
  IF cras_iodev_software_volume_needed(dev, nodes) = 0
  THEN 0
  ELSE IF dev.active_node = NULL
  THEN 0
  ELSE nodes[dev.active_node].max_software_gain

\* buf_state: one row per stream id.  used and offset are the row;
\* total (frames the stream has written since it was added) and base (frames
\* committed since it was added) are history.  written is the last result of
\* cras_iodev_all_streams_written.
StreamIds == {1, 2}

\* The frame counts a stream reports as written.
PostedFrames == {1, 3}

NoRow == [used |-> FALSE, offset |-> 0, total |-> 0, base |-> 0]

NoStreams == [rows |-> [id \in StreamIds |-> NoRow], written |-> NONE]

Attached(st) == {id \in StreamIds : st.rows[id].used}

cras_iodev_add_stream(st, id) ==
  [st EXCEPT !.rows[id] = [NoRow EXCEPT !.used = TRUE]]

cras_iodev_rm_stream(st, id) == [st EXCEPT !.rows[id] = NoRow]

cras_iodev_stream_offset(st, id) == st.rows[id].offset

cras_iodev_stream_written(st, id, nwritten) ==
  [st EXCEPT !.rows[id].offset = Uint(@ + nwritten),
             !.rows[id].total = @ + nwritten]

\* The minimum of the attached streams' offsets (0 without streams).
MinOffset(st) ==
  IF Attached(st) = {} THEN 0
  ELSE Min({st.rows[id].offset : id \in Attached(st)})

\* Faulty variant of cras_iodev_all_streams_written, for the sensitivity of
\* C19: the minimum is returned but the offsets are not reduced by it.
cras_iodev_all_streams_written_no_rotation(st) ==
  [st EXCEPT !.written = MinOffset(st)]

cras_iodev_all_streams_written(st) ==
  [rows |-> [id \in StreamIds |->
               IF st.rows[id].used
               THEN [st.rows[id] EXCEPT !.offset = @ - MinOffset(st),
                                        !.base = @ + MinOffset(st)]
               ELSE st.rows[id]],
   written |-> MinOffset(st)]

\* ------------------------------------------------------- SCO connection
\* sco_ref_count and sco_fd of struct cras_bt_device (up: the socket is
\* open), the codec the socket was opened with, and the result of the last
\* call.  gets (successful gets) and puts are history.
Codecs == {1, 2}

NoSco ==
  [sco_ref_count |-> 0, up |-> FALSE, codec |-> 0, rc |-> 0, gets |-> 0,
   puts |-> 0]

\* connects: the SCO socket can be established.
cras_bt_device_get_sco(sc, codec, connects) ==
  IF sc.sco_ref_count > 0
  THEN [sc EXCEPT !.sco_ref_count = @ + 1, !.rc = 0, !.gets = @ + 1]
  ELSE IF connects
  THEN [sc EXCEPT !.sco_ref_count = 1, !.up = TRUE, !.codec = codec,
                  !.rc = 0, !.gets = @ + 1]
  ELSE [sc EXCEPT !.rc = -1]

\* Faulty variant of cras_bt_device_put_sco, for the sensitivity of C20:
\* every put closes the socket.
cras_bt_device_put_sco_closes_always(sc) ==
  IF sc.sco_ref_count = 0
  THEN sc
  ELSE [sc EXCEPT !.sco_ref_count = @ - 1, !.puts = @ + 1,
                  !.up = FALSE, !.codec = 0]

cras_bt_device_put_sco(sc) ==
  IF sc.sco_ref_count = 0
  THEN sc
  ELSE IF sc.sco_ref_count > 1
  THEN [sc EXCEPT !.sco_ref_count = @ - 1, !.puts = @ + 1]
  ELSE [sc EXCEPT !.sco_ref_count = 0, !.puts = @ + 1, !.up = FALSE,
                  !.codec = 0]

\* --------------------------------------------------- main message bus
init_bt_policy_msg(cmd, device, dev, arg1, arg2) ==
  [type |-> "CRAS_MAIN_BT_POLICY", cmd |-> cmd, device |-> device,
   dev |-> dev, arg1 |-> arg1, arg2 |-> arg2]

\* cras_main_message_send: the message joins, by value, the messages its
\* sender has in flight.  sent is history: the handler function the sender
\* asks for, the arguments the sender passed, and the number of the send
\* among the calls made so far.
cras_main_message_send(b, sender, msg, sent) ==
  [b EXCEPT ![sender] = Append(@, [msg |-> msg, sent |-> sent])]

cras_bt_policy_switch_profile(b, sender, device, bt_iodev, seq) ==
  cras_main_message_send(
    b, sender,
    init_bt_policy_msg(BT_POLICY_SWITCH_PROFILE, device, bt_iodev, 0, 0),
    [f |-> "switch_profile", device |-> device, iodev |-> bt_iodev,
     msec |-> 0, reason |-> 0, seq |-> seq])

\* Faulty variant of cras_bt_policy_schedule_suspend, for the sensitivity
\* of C18: the reason is carried as arg1 and the delay as arg2.
cras_bt_policy_schedule_suspend_args_swapped(b, sender, device, msec, suspend_reason, seq) ==
  cras_main_message_send(
    b, sender,
    init_bt_policy_msg(BT_POLICY_SCHEDULE_SUSPEND, device, NULL,
                       suspend_reason, msec),
    [f |-> "schedule_suspend", device |-> device, iodev |-> NULL,
     msec |-> msec, reason |-> suspend_reason, seq |-> seq])

cras_bt_policy_schedule_suspend(b, sender, device, msec, suspend_reason, seq) ==
  cras_main_message_send(
    b, sender,
    init_bt_policy_msg(BT_POLICY_SCHEDULE_SUSPEND, device, NULL, msec,
                       suspend_reason),
    [f |-> "schedule_suspend", device |-> device, iodev |-> NULL,
     msec |-> msec, reason |-> suspend_reason, seq |-> seq])

\* Faulty variant of cras_bt_policy_cancel_suspend, for the sensitivity of
\* C15: the message carries the SCHEDULE_SUSPEND command.
cras_bt_policy_cancel_suspend_wrong_cmd(b, sender, device, seq) ==
  cras_main_message_send(
    b, sender,
    init_bt_policy_msg(BT_POLICY_SCHEDULE_SUSPEND, device, NULL, 0, 0),
    [f |-> "cancel_suspend", device |-> device, iodev |-> NULL,
     msec |-> 0, reason |-> 0, seq |-> seq])

cras_bt_policy_cancel_suspend(b, sender, device, seq) ==
  cras_main_message_send(
    b, sender,
    init_bt_policy_msg(BT_POLICY_CANCEL_SUSPEND, device, NULL, 0, 0),
    [f |-> "cancel_suspend", device |-> device, iodev |-> NULL,
     msec |-> 0, reason |-> 0, seq |-> seq])

\* The handler's call, as the last step records it: the function and the
\* arguments process_bt_policy_msg passes to it.
HandlerCall(S, msg, has_output, has_input) ==
  CASE msg.cmd = BT_POLICY_SWITCH_PROFILE ->
         [NoArgs EXCEPT
            !.op = "switch_profile", !.dev = msg.device, !.iodev = msg.dev,
            !.has_output = has_output, !.has_input = has_input,
            !.policy = IF has_output
                       THEN DL_SEARCH_SCALAR(S.switch_recs,
                                             S.profile_switch_policies,
                                             msg.device)
                       ELSE NULL]
    [] msg.cmd = BT_POLICY_SCHEDULE_SUSPEND ->
         [NoArgs EXCEPT
            !.op = "schedule_suspend", !.dev = msg.device,
            !.msec = msg.arg1, !.reason = msg.arg2,
            !.policy = DL_SEARCH_SCALAR(S.suspend_recs, S.suspend_policies,
                                        msg.device)]
    [] msg.cmd = BT_POLICY_CANCEL_SUSPEND ->
         [NoArgs EXCEPT
            !.op = "cancel_suspend", !.dev = msg.device,
            !.policy = DL_SEARCH_SCALAR(S.suspend_recs, S.suspend_policies,
                                        msg.device)]
    [] OTHER -> NoArgs

\* Faulty variant of process_bt_policy_msg, for the sensitivity of C14:
\* arg1 is taken as the reason and arg2 as the delay.
process_bt_policy_msg_args_swapped(S, msg, has_output, has_input, slot) ==
  CASE msg.cmd = BT_POLICY_SWITCH_PROFILE ->
         switch_profile(S, msg.device, has_output, has_input, slot)
    [] msg.cmd = BT_POLICY_SCHEDULE_SUSPEND ->
         schedule_suspend(S, msg.device, msg.arg2, msg.arg1)
    [] msg.cmd = BT_POLICY_CANCEL_SUSPEND -> cancel_suspend(S, msg.device)
    [] OTHER -> S

\* has_output, has_input: the device's bt_iodevs at dispatch time; slot: the
\* record calloc returns to switch_profile_with_delay.
process_bt_policy_msg(S, msg, has_output, has_input, slot) ==
  CASE msg.cmd = BT_POLICY_SWITCH_PROFILE ->
         switch_profile(S, msg.device, has_output, has_input, slot)
    [] msg.cmd = BT_POLICY_SCHEDULE_SUSPEND ->
         schedule_suspend(S, msg.device, msg.arg1, msg.arg2)
    [] msg.cmd = BT_POLICY_CANCEL_SUSPEND -> cancel_suspend(S, msg.device)
    [] OTHER -> S

cras_main_message_add_handler(h, type) == h \cup {type}

cras_main_message_rm_handler(h, type) == h \ {type}

cras_bt_policy_start(h) ==
  cras_main_message_add_handler(h, "CRAS_MAIN_BT_POLICY")

cras_bt_policy_stop(h) ==
  cras_main_message_rm_handler(h, "CRAS_MAIN_BT_POLICY")

\* ------------------------------------------------------------ actions
\* The policy engine after construction.
EngineInit ==
  /\ switch_recs = EmptyMem
  /\ profile_switch_policies = NULL
  /\ suspend_recs = EmptyMem
  /\ suspend_policies = NULL
  /\ watch_recs = EmptyMem
  /\ conn_watch_policies = NULL
  /\ tm = <<>>
  /\ status = "run"
  /\ calls = <<>>
  /\ last = NoArgs
  /\ ticks = [d \in Devices |-> 0]
  /\ ops = 0
  /\ fired = 0
  /\ handlers = {}
  /\ bus = [s \in Senders |-> <<>>]
  /\ dispatched = <<>>

Init ==
  /\ EngineInit
  /\ volume = [node |-> 100, system |-> 100, adjusted |-> NONE]
  /\ streams = NoStreams
  /\ sco = NoSco
  /\ gain = NoGain

\* An external request reaches the main thread.
Request == status = "run"

\* switch_profile, as process_bt_policy_msg calls it for
\* BT_POLICY_SWITCH_PROFILE, without the passage through the bus.
SwitchProfile(d, ho, hi) ==
  /\ Request
  /\ LET found == DL_SEARCH_SCALAR(switch_recs, profile_switch_policies, d)
     IN /\ \E slot \in (IF ho /\ found = NULL THEN FreeSlots(switch_recs)
                        ELSE {NULL}) :
             Commit(switch_profile(Cur, d, ho, hi, slot))
        /\ last' = [NoArgs EXCEPT !.op = "switch_profile", !.dev = d,
                                  !.has_output = ho, !.has_input = hi,
                                  !.policy = IF ho THEN found ELSE NULL]
  /\ UNCHANGED <<ticks, handlers, bus, dispatched, audio>>

\* schedule_suspend, as process_bt_policy_msg calls it for
\* BT_POLICY_SCHEDULE_SUSPEND, without the passage through the bus.
ScheduleSuspend(d, msec, reason) ==
  /\ Request
  /\ Commit(schedule_suspend(Cur, d, msec, reason))
  /\ last' = [NoArgs EXCEPT !.op = "schedule_suspend", !.dev = d,
                            !.msec = msec, !.reason = reason,
                            !.policy = DL_SEARCH_SCALAR(
                                         suspend_recs, suspend_policies, d)]
  /\ UNCHANGED <<ticks, handlers, bus, dispatched, audio>>

\* cancel_suspend, as process_bt_policy_msg calls it for
\* BT_POLICY_CANCEL_SUSPEND, without the passage through the bus.
CancelSuspend(d) ==
  /\ Request
  /\ Commit(cancel_suspend(Cur, d))
  /\ last' = [NoArgs EXCEPT !.op = "cancel_suspend", !.dev = d,
                            !.policy = DL_SEARCH_SCALAR(
                                         suspend_recs, suspend_policies, d)]
  /\ UNCHANGED <<ticks, handlers, bus, dispatched, audio>>

StartConnectionWatch(d) ==
  /\ Request
  /\ Commit(cras_bt_policy_start_connection_watch(Cur, d))
  /\ last' = [NoArgs EXCEPT !.op = "start_connection_watch", !.dev = d,
                            !.policy = DL_SEARCH_SCALAR(
                                         watch_recs, conn_watch_policies, d)]
  /\ ticks' = [ticks EXCEPT ![d] = 0]
  /\ UNCHANGED <<handlers, bus, dispatched, audio>>

StopConnectionWatch(d) ==
  /\ Request
  /\ Commit(cras_bt_policy_stop_connection_watch(Cur, d))
  /\ last' = [NoArgs EXCEPT !.op = "stop_connection_watch", !.dev = d,
                            !.policy = DL_SEARCH_SCALAR(
                                         watch_recs, conn_watch_policies, d)]
  /\ UNCHANGED <<ticks, handlers, bus, dispatched, audio>>

RemoveDevice(d) ==
  /\ Request
  /\ Commit(cras_bt_policy_remove_device(Cur, d))
  /\ last' = [NoArgs EXCEPT !.op = "remove_device", !.dev = d,
                            !.policy = DL_SEARCH_SCALAR(
                                         switch_recs, profile_switch_policies,
                                         d)]
  /\ UNCHANGED <<ticks, handlers, bus, dispatched, audio>>

\* The timer the main loop dispatches next: the first expired one in
\* registration order (0 when none has expired).
Expired == {i \in 1..Len(tm) : tm[i].left = 0}

NextTimer == IF Expired = {} THEN 0 ELSE Min(Expired)

\* The timer manager takes the timer off its list and runs the callback.
Dispatched(i) ==
  [Cur EXCEPT !.tm = SelectSeq(tm, LAMBDA t : t.id # tm[i].id)]

ProfileSwitchTimerFires(ho) ==
  /\ status = "run"
  /\ NextTimer # 0
  /\ tm[NextTimer].cb = "profile_switch_delay_cb"
  /\ Commit(profile_switch_delay_cb(Dispatched(NextTimer),
                                    tm[NextTimer].arg, ho))
  /\ last' = [NoArgs EXCEPT !.op = "profile_switch_delay_cb",
                            !.dev = switch_recs[tm[NextTimer].arg].device,
                            !.policy = tm[NextTimer].arg,
                            !.has_output = ho]
  /\ UNCHANGED <<ticks, handlers, bus, dispatched, audio>>

SuspendTimerFires ==
  /\ status = "run"
  /\ NextTimer # 0
  /\ tm[NextTimer].cb = "suspend_cb"
  /\ Commit(suspend_cb(Dispatched(NextTimer), tm[NextTimer].arg))
  /\ last' = [NoArgs EXCEPT !.op = "suspend_cb",
                            !.dev = suspend_recs[tm[NextTimer].arg].device,
                            !.reason =
                               suspend_recs[tm[NextTimer].arg].suspend_reason,
                            !.policy = tm[NextTimer].arg]
  /\ UNCHANGED <<ticks, handlers, bus, dispatched, audio>>

ConnWatchTimerFires(in) ==
  /\ status = "run"
  /\ NextTimer # 0
  /\ tm[NextTimer].cb = "conn_watch_cb"
  /\ Commit(conn_watch_cb(Dispatched(NextTimer), tm[NextTimer].arg, in))
  /\ last' = [NoArgs EXCEPT !.op = "conn_watch_cb",
                            !.dev = watch_recs[tm[NextTimer].arg].device,
                            !.policy = tm[NextTimer].arg]
  /\ ticks' = [ticks EXCEPT ![watch_recs[tm[NextTimer].arg].device] = @ + 1]
  /\ UNCHANGED <<handlers, bus, dispatched, audio>>

\* Time passes up to the next deadline.
MinLeft == Min({tm[i].left : i \in 1..Len(tm)})

Advance ==
  /\ status = "run"
  /\ tm # <<>>
  /\ Expired = {}
  /\ tm' = [i \in 1..Len(tm) |-> [tm[i] EXCEPT !.left = @ - MinLeft]]
  /\ calls' = <<>>
  /\ last' = [NoArgs EXCEPT !.op = "advance", !.msec = MinLeft]
  /\ UNCHANGED <<switch_recs, profile_switch_policies, suspend_recs,
                 suspend_policies, watch_recs, conn_watch_policies, status,
                 ticks, handlers, bus, dispatched, audio>>

\* cras_bt_policy_start and cras_bt_policy_stop, called on the main thread.
PolicyStart ==
  /\ Request
  /\ handlers' = cras_bt_policy_start(handlers)
  /\ Commit(Cur)
  /\ last' = [NoArgs EXCEPT !.op = "cras_bt_policy_start"]
  /\ UNCHANGED <<ticks, bus, dispatched, audio>>

PolicyStop ==
  /\ Request
  /\ handlers' = cras_bt_policy_stop(handlers)
  /\ Commit(Cur)
  /\ last' = [NoArgs EXCEPT !.op = "cras_bt_policy_stop"]
  /\ UNCHANGED <<ticks, bus, dispatched, audio>>

\* A thread calls one of the three senders.
SendSwitchProfile(s, d, iodev) ==
  /\ status = "run"
  /\ bus' = cras_bt_policy_switch_profile(bus, s, d, iodev, ops + 1)
  /\ Commit(Cur)
  /\ last' = [NoArgs EXCEPT !.op = "cras_bt_policy_switch_profile",
                            !.dev = d, !.iodev = iodev]
  /\ UNCHANGED <<ticks, handlers, dispatched, audio>>

SendScheduleSuspend(s, d, msec, reason) ==
  /\ status = "run"
  /\ bus' = cras_bt_policy_schedule_suspend(bus, s, d, msec, reason, ops + 1)
  /\ Commit(Cur)
  /\ last' = [NoArgs EXCEPT !.op = "cras_bt_policy_schedule_suspend",
                            !.dev = d, !.msec = msec, !.reason = reason]
  /\ UNCHANGED <<ticks, handlers, dispatched, audio>>

\* Faulty variant of SendCancelSuspend, for the sensitivity of C32: the
\* sender also runs cancel_suspend itself, on the calling thread.
SendCancelSuspend_on_caller_thread(s, d) ==
  /\ status = "run"
  /\ bus' = cras_bt_policy_cancel_suspend(bus, s, d, ops + 1)
  /\ Commit(cancel_suspend(Cur, d))
  /\ last' = [NoArgs EXCEPT !.op = "cras_bt_policy_cancel_suspend",
                            !.dev = d]
  /\ UNCHANGED <<ticks, handlers, dispatched, audio>>

SendCancelSuspend(s, d) ==
  /\ status = "run"
  /\ bus' = cras_bt_policy_cancel_suspend(bus, s, d, ops + 1)
  /\ Commit(Cur)
  /\ last' = [NoArgs EXCEPT !.op = "cras_bt_policy_cancel_suspend",
                            !.dev = d]
  /\ UNCHANGED <<ticks, handlers, dispatched, audio>>

\* The main thread takes the oldest message of a sender off the bus and
\* calls the handler registered for its type; without one, the message is
\* dropped.
Dispatch(s, ho, hi) ==
  /\ status = "run"
  /\ bus[s] # <<>>
  /\ LET m == Head(bus[s])
         handled == m.msg.type \in handlers
         found == DL_SEARCH_SCALAR(switch_recs, profile_switch_policies,
                                   m.msg.device)
         allocates == /\ handled
                      /\ m.msg.cmd = BT_POLICY_SWITCH_PROFILE
                      /\ ho
                      /\ found = NULL
     IN /\ bus' = [bus EXCEPT ![s] = Tail(@)]
        /\ dispatched' = Append(dispatched,
                                [sender |-> s, sent |-> m.sent,
                                 handled |-> handled])
        /\ IF handled
           THEN /\ \E slot \in (IF allocates THEN FreeSlots(switch_recs)
                                ELSE {NULL}) :
                     Commit(process_bt_policy_msg(Cur, m.msg, ho, hi, slot))
                /\ last' = HandlerCall(Cur, m.msg, ho, hi)
           ELSE /\ Commit(Cur)
                /\ last' = [NoArgs EXCEPT !.op = "dropped",
                                          !.dev = m.msg.device]
  /\ UNCHANGED <<ticks, handlers, audio>>

\* The three allocating requests, for a device without a record, when
\* calloc returns NULL.
NoMemory == [Cur EXCEPT !.calloc_fails = TRUE]

SwitchProfileNoMemory(d, hi) ==
  /\ Request
  /\ DL_SEARCH_SCALAR(switch_recs, profile_switch_policies, d) = NULL
  /\ Commit(switch_profile(NoMemory, d, TRUE, hi, NULL))
  /\ last' = [NoArgs EXCEPT !.op = "switch_profile", !.dev = d,
                            !.has_output = TRUE, !.has_input = hi,
                            !.calloc_failed = TRUE]
  /\ UNCHANGED <<ticks, handlers, bus, dispatched, audio>>

ScheduleSuspendNoMemory(d, msec, reason) ==
  /\ Request
  /\ DL_SEARCH_SCALAR(suspend_recs, suspend_policies, d) = NULL
  /\ Commit(schedule_suspend(NoMemory, d, msec, reason))
  /\ last' = [NoArgs EXCEPT !.op = "schedule_suspend", !.dev = d,
                            !.msec = msec, !.reason = reason,
                            !.calloc_failed = TRUE]
  /\ UNCHANGED <<ticks, handlers, bus, dispatched, audio>>

StartConnectionWatchNoMemory(d) ==
  /\ Request
  /\ DL_SEARCH_SCALAR(watch_recs, conn_watch_policies, d) = NULL
  /\ Commit(cras_bt_policy_start_connection_watch(NoMemory, d))
  /\ last' = [NoArgs EXCEPT !.op = "start_connection_watch", !.dev = d,
                            !.calloc_failed = TRUE]
  /\ UNCHANGED <<ticks, handlers, bus, dispatched, audio>>

\* cras_iodev_adjust_node_volume is called with the node and the system
\* volume.
AdjustNodeVolume ==
  /\ volume' = [volume EXCEPT
                  !.adjusted = cras_iodev_adjust_node_volume(volume.node,
                                                             volume.system)]
  /\ Commit(Cur)
  /\ last' = [NoArgs EXCEPT !.op = "cras_iodev_adjust_node_volume"]
  /\ UNCHANGED <<ticks, ops, fired, handlers, bus, dispatched, streams, sco,
                 gain>>

\* The gain and volume queries on one iodev.
Nodes == TheNode :> gain.node

Returns(f, value) ==
  [gain EXCEPT !.result = [f |-> f, value |-> value]]

Queried ==
  /\ Commit(Cur)
  /\ last' = [NoArgs EXCEPT !.op = gain'.result.f]
  /\ UNCHANGED <<ticks, ops, fired, handlers, bus, dispatched, volume,
                 streams, sco>>

SoftwareVolumeNeeded ==
  /\ gain' = Returns("cras_iodev_software_volume_needed",
                     cras_iodev_software_volume_needed(gain.iodev, Nodes))
  /\ Queried

MaximumSoftwareGain ==
  /\ gain' = Returns("cras_iodev_maximum_software_gain",
                     cras_iodev_maximum_software_gain(gain.iodev, Nodes))
  /\ Queried

AdjustActiveNodeGain ==
  /\ gain' = Returns("cras_iodev_adjust_active_node_gain",
                     cras_iodev_adjust_active_node_gain(gain.iodev, Nodes,
                                                        gain.system_gain))
  /\ Queried

AdjustActiveNodeVolume ==
  /\ gain' = Returns("cras_iodev_adjust_active_node_volume",
                     cras_iodev_adjust_active_node_volume(
                       gain.iodev, Nodes, gain.system_volume))
  /\ Queried

\* The stream calls on one iodev.
AddStream(id) ==
  /\ ~streams.rows[id].used
  /\ streams' = cras_iodev_add_stream(streams, id)
  /\ Commit(Cur)
  /\ last' = [NoArgs EXCEPT !.op = "cras_iodev_add_stream", !.stream = id]
  /\ UNCHANGED <<ticks, handlers, bus, dispatched, volume, sco, gain>>

RmStream(id) ==
  /\ streams.rows[id].used
  /\ streams' = cras_iodev_rm_stream(streams, id)
  /\ Commit(Cur)
  /\ last' = [NoArgs EXCEPT !.op = "cras_iodev_rm_stream", !.stream = id]
  /\ UNCHANGED <<ticks, handlers, bus, dispatched, volume, sco, gain>>

StreamWritten(id, nwritten) ==
  /\ streams.rows[id].used
  /\ streams' = cras_iodev_stream_written(streams, id, nwritten)
  /\ Commit(Cur)
  /\ last' = [NoArgs EXCEPT !.op = "cras_iodev_stream_written",
                            !.stream = id]
  /\ UNCHANGED <<ticks, handlers, bus, dispatched, volume, sco, gain>>

AllStreamsWritten ==
  /\ streams' = cras_iodev_all_streams_written(streams)
  /\ Commit(Cur)
  /\ last' = [NoArgs EXCEPT !.op = "cras_iodev_all_streams_written"]
  /\ UNCHANGED <<ticks, handlers, bus, dispatched, volume, sco, gain>>

\* The SCO calls on one BT device.  A reference is put only by a caller
\* that got one.
GetSco(codec, connects) ==
  /\ sco' = cras_bt_device_get_sco(sco, codec, connects)
  /\ Commit(Cur)
  /\ last' = [NoArgs EXCEPT !.op = "cras_bt_device_get_sco"]
  /\ UNCHANGED <<ticks, handlers, bus, dispatched, volume, streams,
                 gain>>

PutSco ==
  /\ sco.gets > sco.puts
  /\ sco' = cras_bt_device_put_sco(sco)
  /\ Commit(Cur)
  /\ last' = [NoArgs EXCEPT !.op = "cras_bt_device_put_sco"]
  /\ UNCHANGED <<ticks, handlers, bus, dispatched, volume, streams,
                 gain>>

\* The bounds of a specification: a request is one of at most n, a timer
\* callback one of at most MaxFires (or is not counted).
Requested(n) == ops < n /\ ops' = ops + 1 /\ UNCHANGED fired

Counted == fired < MaxFires /\ fired' = fired + 1 /\ UNCHANGED ops

Uncounted == UNCHANGED <<ops, fired>>

Next ==
  \/ \E d \in Devices, ho \in BOOLEAN, hi \in BOOLEAN :
       SwitchProfile(d, ho, hi) /\ Requested(MaxOps)
  \/ \E d \in Devices, msec \in PostedDelays, reason \in PostedReasons :
       ScheduleSuspend(d, msec, reason) /\ Requested(MaxOps)
  \/ \E d \in Devices : CancelSuspend(d) /\ Requested(MaxOps)
  \/ \E d \in Devices : StartConnectionWatch(d) /\ Requested(MaxOps)
  \/ \E d \in Devices : StopConnectionWatch(d) /\ Requested(MaxOps)
  \/ \E d \in Devices : RemoveDevice(d) /\ Requested(MaxOps)
  \/ \E ho \in BOOLEAN : ProfileSwitchTimerFires(ho) /\ Counted
  \/ SuspendTimerFires /\ Counted
  \/ \E in \in TickInputs : ConnWatchTimerFires(in) /\ Counted
  \/ Advance /\ Uncounted

\* Every operation on every device, through MaxOps requests and MaxFires
\* timer callbacks.
Spec == Init /\ [][Next]_vars

\* The profile-switch state machine alone, through MaxSwitchOps requests.
\* The suspend and connection-watch lists stay empty: no operation on them
\* reads or writes the profile-switch list, except remove_device.
NextSwitch ==
  \/ \E d \in Devices, ho \in BOOLEAN, hi \in BOOLEAN :
       SwitchProfile(d, ho, hi) /\ Requested(MaxSwitchOps)
  \/ \E d \in Devices : RemoveDevice(d) /\ Requested(MaxSwitchOps)
  \/ \E ho \in BOOLEAN : ProfileSwitchTimerFires(ho) /\ Uncounted
  \/ Advance /\ Uncounted

SpecSwitch == Init /\ [][NextSwitch]_vars

\* The suspend state machine alone, on both devices.  The other two lists
\* stay empty.
NextSuspend ==
  \/ \E d \in Devices, msec \in PostedDelays, reason \in PostedReasons :
       ScheduleSuspend(d, msec, reason) /\ Requested(MaxOps)
  \/ \E d \in Devices : CancelSuspend(d) /\ Requested(MaxOps)
  \/ \E d \in Devices : RemoveDevice(d) /\ Requested(MaxOps)
  \/ SuspendTimerFires /\ Uncounted
  \/ Advance /\ Uncounted

SpecSuspend == Init /\ [][NextSuspend]_vars

\* The connection watches of both devices and the suspends they schedule,
\* through MaxWatchOps requests and MaxFires watch ticks.
NextTick ==
  \/ \E d \in Devices : StartConnectionWatch(d) /\ Requested(MaxWatchOps)
  \/ \E d \in Devices : StopConnectionWatch(d) /\ Requested(MaxWatchOps)
  \/ \E d \in Devices :
       ScheduleSuspend(d, 0, HFP_SCO_SOCKET_ERROR) /\ Requested(MaxWatchOps)
  \/ SuspendTimerFires /\ Uncounted
  \/ \E in \in TickInputs : ConnWatchTimerFires(in) /\ Counted
  \/ Advance /\ Uncounted

SpecTick == Init /\ [][NextTick]_vars

\* One device watched through all its retries, with the suspend requests
\* for it, through MaxWatchOps requests.  The profile-switch list stays
\* empty.
WatchedDevices == {1}

NextWatch ==
  \/ \E d \in WatchedDevices, msec \in PostedDelays, reason \in PostedReasons :
       ScheduleSuspend(d, msec, reason) /\ Requested(MaxWatchOps)
  \/ \E d \in WatchedDevices : CancelSuspend(d) /\ Requested(MaxWatchOps)
  \/ \E d \in WatchedDevices :
       StartConnectionWatch(d) /\ Requested(MaxWatchOps)
  \/ \E d \in WatchedDevices :
       StopConnectionWatch(d) /\ Requested(MaxWatchOps)
  \/ \E d \in WatchedDevices : RemoveDevice(d) /\ Requested(MaxWatchOps)
  \/ SuspendTimerFires /\ Uncounted
  \/ \E in \in TickInputs : ConnWatchTimerFires(in) /\ Uncounted
  \/ Advance /\ Uncounted

SpecWatch == Init /\ [][NextWatch]_vars

\* The message bus: the three senders called from two threads for one
\* device, the dispatch of their messages, start and stop of the policy
\* engine, and the timers the handlers arm, through MaxOps calls.
BusDevices == {1}

\* The delay and the reason a sender posts on the bus: both differ from
\* zero and from each other, so that neither can stand in for the other or
\* for a cleared field of the message.
BusDelays == {200}
BusReasons == {HFP_SCO_SOCKET_ERROR}

\* The thread that asks for a profile switch: the one that opens the iodev.
\* Suspends are scheduled and cancelled from every sender.
SwitchSenders == {"audio thread"}

NextBus ==
  \/ PolicyStart /\ Requested(MaxOps)
  \/ PolicyStop /\ Requested(MaxOps)
  \/ \E s \in SwitchSenders, d \in BusDevices, iodev \in PostedIodevs :
       SendSwitchProfile(s, d, iodev) /\ Requested(MaxOps)
  \/ \E s \in Senders, d \in BusDevices, msec \in BusDelays,
        reason \in BusReasons :
       SendScheduleSuspend(s, d, msec, reason) /\ Requested(MaxOps)
  \/ \E s \in Senders, d \in BusDevices :
       SendCancelSuspend(s, d) /\ Requested(MaxOps)
  \/ \E s \in Senders, ho \in BOOLEAN, hi \in BOOLEAN :
       Dispatch(s, ho, hi) /\ Uncounted
  \/ \E ho \in BOOLEAN : ProfileSwitchTimerFires(ho) /\ Uncounted
  \/ SuspendTimerFires /\ Uncounted
  \/ Advance /\ Uncounted

SpecBus == Init /\ [][NextBus]_vars

\* The three allocating requests on one device, with and without
\* allocation failure, and the timers they arm, through MaxOps requests and
\* MaxFires watch ticks.
NextAlloc ==
  \/ \E d \in WatchedDevices, ho \in BOOLEAN, hi \in BOOLEAN :
       SwitchProfile(d, ho, hi) /\ Requested(MaxOps)
  \/ \E d \in WatchedDevices, msec \in PostedDelays, reason \in PostedReasons :
       ScheduleSuspend(d, msec, reason) /\ Requested(MaxOps)
  \/ \E d \in WatchedDevices : StartConnectionWatch(d) /\ Requested(MaxOps)
  \/ \E d \in WatchedDevices, hi \in BOOLEAN :
       SwitchProfileNoMemory(d, hi) /\ Requested(MaxOps)
  \/ \E d \in WatchedDevices, msec \in PostedDelays, reason \in PostedReasons :
       ScheduleSuspendNoMemory(d, msec, reason) /\ Requested(MaxOps)
  \/ \E d \in WatchedDevices : StartConnectionWatchNoMemory(d) /\ Requested(MaxOps)
  \/ \E ho \in BOOLEAN : ProfileSwitchTimerFires(ho) /\ Uncounted
  \/ SuspendTimerFires /\ Uncounted
  \/ \E in \in TickInputs : ConnWatchTimerFires(in) /\ Counted
  \/ Advance /\ Uncounted

SpecAlloc == Init /\ [][NextAlloc]_vars

\* Suspends scheduled by message from one thread for one device, with each
\* of the six reasons, through MaxOps calls.
ReasonSenders == {"sco poller"}

NextReason ==
  \/ PolicyStart /\ Requested(MaxOps)
  \/ \E s \in ReasonSenders, d \in BusDevices, msec \in PostedDelays,
        reason \in Reasons :
       SendScheduleSuspend(s, d, msec, reason) /\ Requested(MaxOps)
  \/ \E s \in ReasonSenders : Dispatch(s, FALSE, FALSE) /\ Uncounted
  \/ SuspendTimerFires /\ Uncounted
  \/ Advance /\ Uncounted

SpecReason == Init /\ [][NextReason]_vars

\* The volume adjustment, for every system volume and node volume.
InitVolume ==
  /\ EngineInit
  /\ volume \in [node : VolumeRange, system : VolumeRange, adjusted : {NONE}]
  /\ streams = NoStreams
  /\ sco = NoSco
  /\ gain = NoGain

SpecVolume == InitVolume /\ [][AdjustNodeVolume]_vars

\* The gain and volume queries, for every setting of the device's and the
\* node's flags, with and without an active node.
InitGain ==
  /\ EngineInit
  /\ volume = [node |-> 100, system |-> 100, adjusted |-> NONE]
  /\ streams = NoStreams
  /\ sco = NoSco
  /\ gain \in [iodev : [software_volume_needed : Flags,
                        active_node : {NULL, TheNode}],
               node : [volume : SomeVolumes, capture_gain : NodeGains,
                       software_volume_needed : Flags,
                       max_software_gain : {0, 2000}],
               system_gain : SystemGains, system_volume : SomeVolumes,
               result : {NoResult}]

NextGain ==
  \/ SoftwareVolumeNeeded
  \/ MaximumSoftwareGain
  \/ AdjustActiveNodeGain
  \/ AdjustActiveNodeVolume

SpecGain == InitGain /\ [][NextGain]_vars

\* The streams of one iodev, through MaxStreamOps calls.
NextStreams ==
  \/ \E id \in StreamIds : AddStream(id) /\ Requested(MaxStreamOps)
  \/ \E id \in StreamIds : RmStream(id) /\ Requested(MaxStreamOps)
  \/ \E id \in StreamIds, nwritten \in PostedFrames :
       StreamWritten(id, nwritten) /\ Requested(MaxStreamOps)
  \/ AllStreamsWritten /\ Requested(MaxStreamOps)

SpecStreams == Init /\ [][NextStreams]_vars

\* The SCO connection of one BT device, through MaxScoOps calls.
NextSco ==
  \/ \E codec \in Codecs, connects \in BOOLEAN :
       GetSco(codec, connects) /\ Requested(MaxScoOps)
  \/ PutSco /\ Requested(MaxScoOps)

SpecSco == Init /\ [][NextSco]_vars

\* Messages in flight while their device is removed: a worker posts a
\* switch or a suspend for the device, the main thread removes the device
\* and dispatches the messages, and the timers the handlers arm run,
\* through MaxOps calls.  The bt_iodevs the handler reads at dispatch are
\* those of a removed device and may hold anything.
NextRemove ==
  \/ PolicyStart /\ Requested(MaxOps)
  \/ \E s \in SwitchSenders, d \in BusDevices, iodev \in PostedIodevs :
       SendSwitchProfile(s, d, iodev) /\ Requested(MaxOps)
  \/ \E s \in ReasonSenders, d \in BusDevices, msec \in BusDelays,
        reason \in BusReasons :
       SendScheduleSuspend(s, d, msec, reason) /\ Requested(MaxOps)
  \/ \E d \in BusDevices : RemoveDevice(d) /\ Requested(MaxOps)
  \/ \E s \in Senders, ho \in BOOLEAN, hi \in BOOLEAN :
       Dispatch(s, ho, hi) /\ Uncounted
  \/ \E ho \in BOOLEAN : ProfileSwitchTimerFires(ho) /\ Uncounted
  \/ SuspendTimerFires /\ Uncounted
  \/ Advance /\ Uncounted

SpecRemove == Init /\ [][NextRemove]_vars

\* One watch from its start to its end, with fairness: the watch of a
\* device is started once and not again, suspends for the device are
\* scheduled and cancelled meanwhile (MaxWatchOps requests in all), and
\* the timer manager dispatches every timer that has expired and lets
\* time pass otherwise.  No device is ticked more than MaxTicks times.
StartOnce ==
  \E d \in WatchedDevices :
    StartConnectionWatch(d) /\ ops = 0 /\ Requested(MaxWatchOps)

WatchTick ==
  \E in \in TickInputs :
    /\ \A d \in Devices : ticks[d] < MaxTicks
    /\ ConnWatchTimerFires(in)
    /\ Uncounted

SuspendFires == SuspendTimerFires /\ Uncounted

TimePasses == Advance /\ Uncounted

NextLive ==
  \/ StartOnce
  \/ \E d \in WatchedDevices, reason \in PostedReasons :
       ScheduleSuspend(d, 0, reason) /\ ops > 0 /\ Requested(MaxWatchOps)
  \/ \E d \in WatchedDevices :
       CancelSuspend(d) /\ ops > 0 /\ Requested(MaxWatchOps)
  \/ WatchTick
  \/ SuspendFires
  \/ TimePasses

SpecLive ==
  /\ Init
  /\ [][NextLive]_vars
  /\ WF_vars(WatchTick)
  /\ WF_vars(SuspendFires)
  /\ WF_vars(TimePasses)

\* ------------------------------------------------------------- claims
\* The records of a list that exist for a device: allocated and appended,
\* and not yet deleted and freed.
Records(mem, d) == {s \in Slots : mem[s].live /\ mem[s].device = d}

\* The pending timers of callback cb whose record (in mem) is of device d.
TimersOf(t, cb, mem, d) ==
  SelectSeq(t, LAMBDA x : x.cb = cb /\ mem[x.arg].device = d)

\* The pending timers of callback cb.
TimersFor(t, cb) == SelectSeq(t, LAMBDA x : x.cb = cb)

\* The collaborator calls of a step other than logging.
Effects(c) == SelectSeq(c, LAMBDA x : x.f # "syslog")

Logged(c, text) == \E i \in 1..Len(c) : c[i].f = "syslog" /\ c[i].arg = text

\* C1: after any sequence of operations and timer firings, each of the
\* three policy lists holds at most one record for any device; a
\* switch_profile for a device whose delay timer is still pending adds no
\* second record for it.
C1_OneRecordPerDevice ==
  \A d \in Devices :
    /\ Cardinality(Records(switch_recs, d)) <= 1
    /\ Cardinality(Records(suspend_recs, d)) <= 1
    /\ Cardinality(Records(watch_recs, d)) <= 1

\* C2: schedule_suspend is idempotent per device.  A schedule_suspend for
\* a device with a suspend pending, dispatched from a message or issued by
\* the connection watch's callback, creates no timer and changes no suspend
\* record: exactly one suspend timer stays pending for the device, with the
\* first call's reason and the first call's remaining delay.
C2_ScheduleIdempotent ==
  [][\A d \in Devices :
       (/\ DL_SEARCH_SCALAR(suspend_recs, suspend_policies, d) # NULL
        /\ last'.op \in {"schedule_suspend", "conn_watch_cb"}
        /\ last'.dev = d)
       => /\ suspend_recs' = suspend_recs
          /\ suspend_policies' = suspend_policies
          /\ TimersFor(tm', "suspend_cb") = TimersFor(tm, "suspend_cb")
          /\ Len(TimersOf(tm', "suspend_cb", suspend_recs', d)) = 1]_vars

\* A second schedule_suspend message has arrived for a device whose pending
\* suspend has another reason and a longer remaining delay.
C2_SecondScheduleDropped ==
  /\ last.op = "schedule_suspend"
  /\ last.policy # NULL
  /\ suspend_recs[last.policy].live
  /\ suspend_recs[last.policy].suspend_reason # last.reason
  /\ \E i \in 1..Len(tm) :
       /\ tm[i].cb = "suspend_cb"
       /\ tm[i].arg = last.policy
       /\ tm[i].left > last.msec

\* C3: switch_profile invocations for one device coalesce.  After each
\* invocation for a device with an output iodev exactly one delay timer is
\* pending for the device, armed for the full PROFILE_SWITCH_DELAY_MS: the
\* timer of the previous invocation has been cancelled, so exactly one
\* delayed output resume runs, 500 ms after the last invocation.
C3_OneDelayedResume ==
  [][(last'.op = "switch_profile" /\ last'.has_output)
     => LET t == TimersOf(tm', "profile_switch_delay_cb", switch_recs',
                          last'.dev)
        IN Len(t) = 1 /\ t[1].left = PROFILE_SWITCH_DELAY_MS]_vars

\* What a tick reads, in the spec's terms.
Advertises(in) == in.profiles # {}

Disagrees(in) ==
  \/ ("A2DP_SINK" \in in.profiles) # ("A2DP_SINK" \in in.connected)
  \/ ("HFP_HANDSFREE" \in in.profiles) # ("HFP_HANDSFREE" \in in.connected)

Satisfied(in) == Advertises(in) /\ ~Disagrees(in)

OnlyHfpConnected(in) ==
  "HFP_HANDSFREE" \in in.connected /\ "A2DP_SINK" \notin in.connected

OnlyA2dpConnected(in) ==
  "A2DP_SINK" \in in.connected /\ "HFP_HANDSFREE" \notin in.connected

\* The pending watch timers of record p.
WatchTimers(t, p) == SelectSeq(t, LAMBDA x : x.cb = "conn_watch_cb" /\ x.arg = p)

SuspendUntouched ==
  /\ suspend_recs' = suspend_recs
  /\ suspend_policies' = suspend_policies
  /\ TimersFor(tm', "suspend_cb") = TimersFor(tm, "suspend_cb")

\* C4: a watch whose device advertises profiles that keep disagreeing with
\* the connected ones ticks CONN_WATCH_MAX_RETRIES times and no more.  Each
\* tick before the 30th re-arms one timer of CONN_WATCH_PERIOD_MS and
\* schedules no suspend; the 30th arms no watch timer and schedules a
\* suspend with reason CONN_WATCH_TIME_OUT and delay 0 (unless one is
\* already pending for the device).
C4_ThirtyTicksThenTimeOut ==
  [][\A in \in TickInputs :
       (last'.op = "conn_watch_cb" /\ ConnWatchTimerFires(in) /\ Advertises(in) /\ Disagrees(in))
       => LET d == last'.dev
              p == last'.policy
              pending == TimersOf(tm', "suspend_cb", suspend_recs', d)
          IN /\ ticks'[d] \in 1..CONN_WATCH_MAX_RETRIES
             /\ ticks'[d] < CONN_WATCH_MAX_RETRIES
                => /\ Len(WatchTimers(tm', p)) = 1
                   /\ WatchTimers(tm', p)[1].left = CONN_WATCH_PERIOD_MS
                   /\ SuspendUntouched
             /\ ticks'[d] = CONN_WATCH_MAX_RETRIES
                => /\ WatchTimers(tm', p) = <<>>
                   /\ Len(pending) = 1
                   /\ DL_SEARCH_SCALAR(suspend_recs, suspend_policies, d)
                        = NULL
                      => /\ pending[1].left = 0
                         /\ suspend_recs'[pending[1].arg].suspend_reason
                              = CONN_WATCH_TIME_OUT]_vars

\* The 30th tick of a watch has run and its suspend is pending.
C4_TimedOut ==
  /\ last.op = "conn_watch_cb"
  /\ ticks[last.dev] = CONN_WATCH_MAX_RETRIES
  /\ Logged(calls, "Connection watch timeout.")
  /\ \E i \in 1..Len(tm) :
       /\ tm[i].cb = "suspend_cb"
       /\ tm[i].left = 0
       /\ suspend_recs[tm[i].arg].device = last.dev
       /\ suspend_recs[tm[i].arg].suspend_reason = CONN_WATCH_TIME_OUT

\* The calls a Satisfied tick makes for device d, in order.
SatisfiedCalls(d, in) ==
  <<[f |-> "cras_bt_device_remove_conflict", dev |-> d, arg |-> ""]>>
  \o (IF "A2DP_SINK" \in in.connected
      THEN <<[f |-> "cras_a2dp_start", dev |-> d, arg |-> ""]>>
      ELSE <<>>)
  \o (IF "HFP_HANDSFREE" \in in.connected
      THEN <<[f |-> "cras_hfp_ag_start", dev |-> d, arg |-> ""]>>
      ELSE <<>>)
  \o <<[f |-> "cras_bt_device_set_nodes_plugged", dev |-> d, arg |-> ""]>>

\* The watch record p of device d is gone: freed, not on the list, and no
\* watch timer is armed for it.
WatchRemoved(d, p) ==
  /\ ~watch_recs'[p].live
  /\ DL_SEARCH_SCALAR(watch_recs', conn_watch_policies', d) = NULL
  /\ WatchTimers(tm', p) = <<>>

\* C5: a Satisfied tick calls conflict removal, then cras_a2dp_start if
\* A2DP sink is connected, then cras_hfp_ag_start if HFP hands-free is
\* connected, then set_nodes_plugged, in this order and nothing else; the
\* watch record is then removed with no timer armed, and unless
\* cras_hfp_ag_start was called and failed the tick schedules no suspend.
C5_SatisfiedTick ==
  [][\A in \in TickInputs :
       (last'.op = "conn_watch_cb" /\ ConnWatchTimerFires(in) /\ Satisfied(in))
       => /\ Effects(calls') = SatisfiedCalls(last'.dev, in)
          /\ WatchRemoved(last'.dev, last'.policy)
          /\ in.hfp_rc = 0 => SuspendUntouched]_vars

\* A Satisfied tick has started both A2DP and HFP.
C5_BothStarted ==
  /\ last.op = "conn_watch_cb"
  /\ ~watch_recs[last.policy].live
  /\ Len(Effects(calls)) = 4
  /\ Effects(calls)[2].f = "cras_a2dp_start"
  /\ Effects(calls)[3].f = "cras_hfp_ag_start"
  /\ Effects(calls)[4].f = "cras_bt_device_set_nodes_plugged"

\* C6: the tick of a device that advertises no profile removes the watch
\* record, arms no timer, schedules no suspend, and makes no collaborator
\* call (no profile connection, conflict removal, A2DP or HFP-AG start,
\* set_nodes_plugged).
C6_NoProfileTick ==
  [][\A in \in TickInputs :
       (last'.op = "conn_watch_cb" /\ ConnWatchTimerFires(in) /\ ~Advertises(in))
       => /\ WatchRemoved(last'.dev, last'.policy)
          /\ SuspendUntouched
          /\ TimersFor(tm', "conn_watch_cb")
               = SelectSeq(TimersFor(tm, "conn_watch_cb"),
                           LAMBDA x : x.arg # last'.policy)
          /\ calls' = <<>>]_vars

\* The first tick of a watch found no profile and removed the record.
C6_FirstTickRemoved ==
  /\ last.op = "conn_watch_cb"
  /\ ticks[last.dev] = 1
  /\ ~watch_recs[last.policy].live
  /\ conn_watch_policies = NULL
  /\ calls = <<>>

\* The profile connections a step asks the registry for.
Connects(c) == SelectSeq(c, LAMBDA x : x.f = "cras_bt_device_connect_profile")

ConnectCall(d, uuid) ==
  [f |-> "cras_bt_device_connect_profile", dev |-> d, arg |-> uuid]

\* C7, as claimed: on a tick of a device that advertises a profile, if
\* exactly one of A2DP sink and HFP hands-free is connected the engine asks
\* the registry to connect the other, whatever profiles are supported.
C7_ConnectsMissingAlways ==
  [][\A in \in TickInputs :
       (last'.op = "conn_watch_cb" /\ ConnWatchTimerFires(in)
        /\ Advertises(in))
       => /\ OnlyHfpConnected(in)
             => Connects(calls') = <<ConnectCall(last'.dev, "A2DP_SINK_UUID")>>
          /\ OnlyA2dpConnected(in)
             => Connects(calls') = <<ConnectCall(last'.dev, "HFP_HF_UUID")>>]_vars

BothSupported(in) == {"A2DP_SINK", "HFP_HANDSFREE"} \subseteq in.profiles

\* C7, amended: on a tick of a device that supports both A2DP sink and HFP
\* hands-free, if exactly one of them is connected the engine asks the
\* registry, once, to connect the other; on every other tick it asks for
\* no connection.
C7_ConnectsMissingWhenBothSupported ==
  [][\A in \in TickInputs :
       (last'.op = "conn_watch_cb" /\ ConnWatchTimerFires(in)
        /\ Advertises(in))
       => Connects(calls') =
            IF BothSupported(in) /\ OnlyHfpConnected(in)
            THEN <<ConnectCall(last'.dev, "A2DP_SINK_UUID")>>
            ELSE IF BothSupported(in) /\ OnlyA2dpConnected(in)
            THEN <<ConnectCall(last'.dev, "HFP_HF_UUID")>>
            ELSE <<>>]_vars

\* A tick has asked the registry to connect A2DP sink.
C7_AskedForA2dp ==
  /\ last.op = "conn_watch_cb"
  /\ Connects(calls) = <<ConnectCall(last.dev, "A2DP_SINK_UUID")>>

\* The suspend record p is gone: freed, and no suspend timer is left for it.
SuspendRemoved(d, p) ==
  /\ ~suspend_recs'[p].live
  /\ DL_SEARCH_SCALAR(suspend_recs', suspend_policies', d) = NULL
  /\ SelectSeq(tm', LAMBDA x : x.cb = "suspend_cb" /\ x.arg = p) = <<>>

\* A schedule_suspend for a device with no suspend pending leaves exactly
\* one record and one timer for it, with the call's reason and delay.
FreshSuspend ==
  (last'.op = "schedule_suspend" /\ last'.policy = NULL)
  => LET d == last'.dev
         t == TimersOf(tm', "suspend_cb", suspend_recs', d)
     IN /\ Len(t) = 1
        /\ t[1].left = last'.msec
        /\ DL_SEARCH_SCALAR(suspend_recs', suspend_policies', d) = t[1].arg
        /\ Records(suspend_recs', d) = {t[1].arg}
        /\ suspend_recs'[t[1].arg].suspend_reason = last'.reason
        /\ tm' = Append(tm, t[1])

\* C8: when a suspend timer fires for a device, suspend_cb calls
\* cras_a2dp_suspend_connected_device, cras_hfp_ag_suspend_connected_device
\* and cras_bt_device_disconnect for it, once each and in this order; the
\* step ends with the device's suspend record removed, so that a later
\* schedule_suspend for the device creates a fresh record and timer.
C8_SuspendFires ==
  [][/\ last'.op = "suspend_cb"
        => /\ Effects(calls') =
                <<[f |-> "cras_a2dp_suspend_connected_device",
                   dev |-> last'.dev, arg |-> ""],
                  [f |-> "cras_hfp_ag_suspend_connected_device",
                   dev |-> last'.dev, arg |-> ""],
                  [f |-> "cras_bt_device_disconnect",
                   dev |-> last'.dev, arg |-> ""]>>
           /\ Logged(calls', ReasonText[last'.reason])
           /\ SuspendRemoved(last'.dev, last'.policy)
     /\ FreshSuspend]_vars

\* A suspend timer has fired while the other device's suspend is pending.
C8_Fired ==
  /\ last.op = "suspend_cb"
  /\ Len(Effects(calls)) = 3
  /\ ~suspend_recs[last.policy].live
  /\ suspend_policies # NULL

\* C9: cancel_suspend for a device with a suspend pending cancels its timer
\* and removes its record, leaving every other timer; with nothing pending
\* it changes no state.  A suspend timer appears for a device only when
\* schedule_suspend runs for it (from a message or from the watch), and a
\* schedule_suspend after the cancel leaves exactly one pending suspend,
\* with the new reason and delay.
C9_CancelSuspend ==
  [][/\ (last'.op = "cancel_suspend" /\ last'.policy # NULL)
        => /\ SuspendRemoved(last'.dev, last'.policy)
           /\ tm' = SelectSeq(tm, LAMBDA x : ~(x.cb = "suspend_cb"
                                              /\ x.arg = last'.policy))
           /\ calls' = <<>>
     /\ (last'.op = "cancel_suspend" /\ last'.policy = NULL)
        => /\ UNCHANGED <<switch_recs, profile_switch_policies, suspend_recs,
                          suspend_policies, watch_recs, conn_watch_policies,
                          tm, status>>
           /\ calls' = <<>>
     /\ \A d \in Devices :
          Len(TimersOf(tm', "suspend_cb", suspend_recs', d))
            > Len(TimersOf(tm, "suspend_cb", suspend_recs, d))
          => /\ last'.op \in {"schedule_suspend", "conn_watch_cb"}
             /\ last'.dev = d
     /\ FreshSuspend]_vars

\* A pending suspend has been cancelled while the other device's suspend
\* stays pending.
C9_Cancelled ==
  /\ last.op = "cancel_suspend"
  /\ last.policy # NULL
  /\ ~suspend_recs[last.policy].live
  /\ Len(TimersFor(tm, "suspend_cb")) = 1

\* C10: cras_bt_policy_start_connection_watch for a device that has a
\* watch record, armed or timed out, reuses the record: the list is
\* unchanged, retries_left is CONN_WATCH_MAX_RETRIES again, the previous
\* timer is cancelled and exactly one timer of CONN_WATCH_PERIOD_MS is
\* armed for it.  No device ever has two watch ticks pending.
C10_RestartWatch ==
  [][/\ (last'.op = "start_connection_watch" /\ last'.policy # NULL)
        => LET p == last'.policy
           IN /\ ListOf(watch_recs', conn_watch_policies')
                   = ListOf(watch_recs, conn_watch_policies)
              /\ Records(watch_recs', last'.dev) = {p}
              /\ watch_recs'[p].retries_left = CONN_WATCH_MAX_RETRIES
              /\ Len(WatchTimers(tm', p)) = 1
              /\ WatchTimers(tm', p)[1].left = CONN_WATCH_PERIOD_MS
              /\ SelectSeq(tm', LAMBDA x : x.arg # p \/ x.cb # "conn_watch_cb")
                   = SelectSeq(tm, LAMBDA x : x.arg # p
                                                \/ x.cb # "conn_watch_cb")
     /\ \A d \in Devices :
          Len(TimersOf(tm', "conn_watch_cb", watch_recs', d)) <= 1]_vars

\* A watch that had timed out, its suspend still pending, has been started
\* again.
C10_RestartedAfterTimeOut ==
  /\ last.op = "start_connection_watch"
  /\ last.policy # NULL
  /\ Len(WatchTimers(tm, last.policy)) = 1
  /\ \E s \in Slots :
       /\ suspend_recs[s].live
       /\ suspend_recs[s].device = last.dev
       /\ suspend_recs[s].suspend_reason = CONN_WATCH_TIME_OUT

\* The collaborator calls switch_profile is to make for a device: the
\* suspends of the iodevs that exist, in direction order, then the input
\* iodev's update_active_node and resume.
SwitchCalls(d, ho, hi) ==
  (IF ho THEN <<[f |-> "cras_iodev_list_suspend_dev", dev |-> d,
                 arg |-> "OUTPUT"]>> ELSE <<>>)
  \o (IF hi THEN <<[f |-> "cras_iodev_list_suspend_dev", dev |-> d,
                    arg |-> "INPUT"],
                   [f |-> "update_active_node", dev |-> d, arg |-> "INPUT"],
                   [f |-> "cras_iodev_list_resume_dev", dev |-> d,
                    arg |-> "INPUT"]>> ELSE <<>>)

\* C11: switch_profile(d) suspends every direction's iodev that exists on
\* d before any update_active_node or resume call; then, if an input iodev
\* exists, it calls update_active_node on it and resumes it within the same
\* call; an output iodev is not resumed within the call.
C11_SwitchProfileCalls ==
  [][last'.op = "switch_profile"
     => calls' = SwitchCalls(last'.dev, last'.has_output,
                             last'.has_input)]_vars

\* The collaborator calls the delay callback is to make for a device.
DelayCalls(d, ho) ==
  IF ho
  THEN <<[f |-> "update_active_node", dev |-> d, arg |-> "OUTPUT"],
         [f |-> "cras_iodev_list_resume_dev", dev |-> d, arg |-> "OUTPUT"]>>
  ELSE <<>>

\* The profile-switch record p is off the list and freed.
SwitchRemoved(p) ==
  /\ ~switch_recs'[p].live
  /\ \A i \in 1..Len(ListOf(switch_recs', profile_switch_policies')) :
       ListOf(switch_recs', profile_switch_policies')[i] # p

\* C12: when the profile-switch delay timer fires for device d, the
\* callback calls update_active_node and then cras_iodev_list_resume_dev on
\* d's output iodev if and only if d has an output iodev at fire time, and
\* in both cases it removes the timer's profile-switch record.
C12_DelayCallback ==
  [][last'.op = "profile_switch_delay_cb"
     => /\ calls' = DelayCalls(last'.dev, last'.has_output)
        /\ SwitchRemoved(last'.policy)]_vars

\* The policy handler is registered on the message bus.
Registered(h) == "CRAS_MAIN_BT_POLICY" \in h

TimerCallbacks ==
  {"profile_switch_delay_cb", "suspend_cb", "conn_watch_cb"}

\* C13: cras_bt_policy_stop cancels all outstanding policy timers, empties
\* the three policy lists and removes the BT-policy message handler, so
\* that while the engine is stopped no profile-switch, suspend or
\* connection-watch callback fires.
C13_StopCancelsAll ==
  [][/\ last'.op = "cras_bt_policy_stop"
        => /\ tm' = <<>>
           /\ profile_switch_policies' = NULL
           /\ suspend_policies' = NULL
           /\ conn_watch_policies' = NULL
           /\ ~Registered(handlers')
     /\ ~Registered(handlers) => last'.op \notin TimerCallbacks]_vars

\* The policy state: the three lists, their records, the pending timers
\* and whether the process is alive.
PolicyState(S) ==
  <<S.switch_recs, S.profile_switch_policies, S.suspend_recs,
    S.suspend_policies, S.watch_recs, S.conn_watch_policies, S.tm,
    S.status>>

PolicyNow == PolicyState(Cur)

\* The direct main-thread call of the function a sender asked for, with the
\* arguments the sender passed.
DirectCall(sent, ho, hi, slot) ==
  CASE sent.f = "switch_profile" ->
         switch_profile(Cur, sent.device, ho, hi, slot)
    [] sent.f = "schedule_suspend" ->
         schedule_suspend(Cur, sent.device, sent.msec, sent.reason)
    [] sent.f = "cancel_suspend" -> cancel_suspend(Cur, sent.device)

\* The records calloc can return to a direct call.
CallocResults ==
  IF FreeSlots(switch_recs) = {} THEN {NULL} ELSE FreeSlots(switch_recs)

\* C14: a message posted by one of the three senders is dispatched to
\* switch_profile, schedule_suspend or cancel_suspend respectively, with
\* exactly the device, iodev, delay and reason the sender passed, and has
\* the same effect on policy state as a direct main-thread call; a message
\* dispatched while the handler is not registered is dropped and changes no
\* policy state.
C14_DispatchAsDirectCall ==
  [][\A s \in Senders :
       (bus[s] # <<>> /\ bus' = [bus EXCEPT ![s] = Tail(@)])
       => LET sent == Head(bus[s]).sent
          IN IF Registered(handlers)
             THEN /\ last'.op = sent.f
                  /\ last'.dev = sent.device
                  /\ last'.iodev = sent.iodev
                  /\ last'.msec = sent.msec
                  /\ last'.reason = sent.reason
                  /\ \E slot \in CallocResults :
                       LET D == DirectCall(sent, last'.has_output,
                                           last'.has_input, slot)
                       IN PolicyNow' = PolicyState(D) /\ calls' = D.calls
             ELSE /\ last'.op = "dropped"
                  /\ PolicyNow' = PolicyNow
                  /\ calls' = <<>>]_vars

\* After a message was dropped for want of a handler, a schedule_suspend
\* message with a delay of 200 ms has been dispatched to the handler and its
\* timer is pending.
C14_DroppedThenHandled ==
  /\ \E i \in 1..Len(dispatched) : ~dispatched[i].handled
  /\ dispatched[Len(dispatched)].handled
  /\ dispatched[Len(dispatched)].sent.f = "schedule_suspend"
  /\ dispatched[Len(dispatched)].sent.reason = HFP_SCO_SOCKET_ERROR
  /\ last.op = "schedule_suspend"
  /\ \E i \in 1..Len(tm) : tm[i].cb = "suspend_cb" /\ tm[i].left = 200
  /\ \E p \in Slots :
       /\ suspend_recs[p].live
       /\ suspend_recs[p].suspend_reason = HFP_SCO_SOCKET_ERROR

\* Exactly two messages have been sent so far, a schedule_suspend and a
\* cancel_suspend for device d, both have been dispatched to the handler
\* and the last step was the handler's call for the second.
BothDispatched(d) ==
  /\ Len(dispatched) = 2
  /\ \A s \in Senders : bus[s] = <<>>
  /\ \A i \in 1..2 : dispatched[i].handled /\ dispatched[i].sent.device = d
  /\ {dispatched[1].sent.f, dispatched[2].sent.f}
       = {"schedule_suspend", "cancel_suspend"}
  /\ last.op \in {"schedule_suspend", "cancel_suspend"}

\* Of the two, the message that was sent first.
FirstSent ==
  IF dispatched[1].sent.seq < dispatched[2].sent.seq
  THEN dispatched[1].sent ELSE dispatched[2].sent

SuspendsPending(d) == Len(TimersOf(tm, "suspend_cb", suspend_recs, d))

\* C15: policy messages from a single sender are processed in the order
\* sent.  If one sender posts schedule_suspend(d) and then
\* cancel_suspend(d), no suspend is pending for d once both are dispatched;
\* if it posts cancel and then schedule, exactly one is pending.
C15_SenderOrder ==
  \A d \in Devices :
    (BothDispatched(d) /\ dispatched[1].sender = dispatched[2].sender)
    => IF FirstSent.f = "schedule_suspend"
       THEN Records(suspend_recs, d) = {} /\ SuspendsPending(d) = 0
       ELSE Cardinality(Records(suspend_recs, d)) = 1
            /\ SuspendsPending(d) = 1

\* Two different senders: schedule_suspend(d) was sent before
\* cancel_suspend(d) and dispatched after it, so a suspend is pending for d
\* once both are dispatched.
C15_TwoSendersReordered ==
  \E d \in Devices :
    /\ BothDispatched(d)
    /\ dispatched[1].sender # dispatched[2].sender
    /\ FirstSent.f = "schedule_suspend"
    /\ dispatched[2].sent = FirstSent
    /\ SuspendsPending(d) = 1

\* C16: if allocation of a policy record fails in schedule_suspend,
\* switch_profile_with_delay or cras_bt_policy_start_connection_watch, the
\* request is dropped: no timer is created, no record is appended, the
\* three policy lists are unchanged and the engine stays able to serve
\* later requests.
C16_AllocationFailureDropped ==
  [][last'.calloc_failed => PolicyNow' = PolicyNow]_vars

\* The messages dispatched to the handler so far.
Handled == SelectSeq(dispatched, LAMBDA x : x.handled)

\* C18: the suspend reason survives the message round trip.  The six
\* reasons have the numeric order 0..5; a reason and delay passed to
\* cras_bt_policy_schedule_suspend are carried as arg2 and arg1; and the
\* reason suspend_cb reports when the timer fires is the reason passed,
\* provided no suspend was pending before.
C18_ReasonRoundTrip ==
  /\ <<A2DP_LONG_TX_FAILURE, A2DP_TX_FATAL_ERROR, CONN_WATCH_TIME_OUT,
       HFP_SCO_SOCKET_ERROR, HFP_AG_START_FAILURE, UNEXPECTED_PROFILE_DROP>>
       = <<0, 1, 2, 3, 4, 5>>
  /\ \A s \in Senders : \A i \in 1..Len(bus[s]) :
       bus[s][i].sent.f = "schedule_suspend"
       => /\ bus[s][i].msg.arg1 = bus[s][i].sent.msec
          /\ bus[s][i].msg.arg2 = bus[s][i].sent.reason
  /\ (last.op = "suspend_cb" /\ Len(Handled) = 1)
     => /\ last.reason = Handled[1].sent.reason
        /\ last.dev = Handled[1].sent.device
        /\ Logged(calls, ReasonText[Handled[1].sent.reason])
        /\ \A r \in Reasons \ {Handled[1].sent.reason} :
             ~Logged(calls, ReasonText[r])

\* The timer of a suspend scheduled by message with reason
\* UNEXPECTED_PROFILE_DROP and a delay of 200 ms has fired.
C18_ProfileDropReported ==
  /\ last.op = "suspend_cb"
  /\ Len(Handled) = 1
  /\ Handled[1].sent.reason = UNEXPECTED_PROFILE_DROP
  /\ Handled[1].sent.msec = 200
  /\ last.reason = UNEXPECTED_PROFILE_DROP

\* The larger of two integers.
Max(a, b) == IF a >= b THEN a ELSE b

\* C17: for every system volume V and node volume N in 0..100,
\* cras_iodev_adjust_node_volume returns max(0, V - (100 - N)), computed
\* without unsigned wrap-around: the result is never greater than V nor
\* greater than N, equals V when N = 100 and equals 0 when V = 0.
C17_AdjustedVolume ==
  volume.adjusted # NONE
  => /\ volume.adjusted = Max(0, volume.system - (100 - volume.node))
     /\ volume.adjusted <= volume.system
     /\ volume.adjusted <= volume.node
     /\ volume.node = 100 => volume.adjusted = volume.system
     /\ volume.system = 0 => volume.adjusted = 0

\* The system volume 20 has been adjusted by the node volume 50: the
\* difference would be negative and the result is 0.
C17_ClampedToZero ==
  /\ volume.system = 20
  /\ volume.node = 50
  /\ volume.adjusted = 0

\* The frames stream id has written past the last commit: those it has
\* written since it was added, less those committed since then.
Uncommitted(id) == streams.rows[id].total - streams.rows[id].base

\* C19: for any sequence of cras_iodev_add_stream,
\* cras_iodev_stream_written and cras_iodev_rm_stream calls on one device,
\* cras_iodev_all_streams_written returns the minimum, over the attached
\* streams, of the frames each has written since the last commit (its
\* frames past the committed point), and reduces every stream's offset by
\* that minimum, so that the
\* differences between the streams' offsets are preserved; removing a
\* stream leaves the other streams' offsets unchanged.
C19_AllStreamsWritten ==
  [][/\ (last'.op = "cras_iodev_all_streams_written"
         /\ Attached(streams) # {})
        => /\ streams'.written
                = Min({Uncommitted(id) : id \in Attached(streams)})
           /\ Attached(streams') = Attached(streams)
           /\ \A id \in Attached(streams) :
                cras_iodev_stream_offset(streams', id)
                  = cras_iodev_stream_offset(streams, id) - streams'.written
           /\ \A a, b \in Attached(streams) :
                cras_iodev_stream_offset(streams', a)
                    - cras_iodev_stream_offset(streams', b)
                  = cras_iodev_stream_offset(streams, a)
                      - cras_iodev_stream_offset(streams, b)
     /\ last'.op = "cras_iodev_rm_stream"
        => /\ Attached(streams') = Attached(streams) \ {last'.stream}
           /\ \A id \in Attached(streams') :
                cras_iodev_stream_offset(streams', id)
                  = cras_iodev_stream_offset(streams, id)]_vars

\* Two streams are attached; after an earlier commit that left one of them
\* ahead, a second commit has returned a minimum above 0 and the streams'
\* offsets still differ.
C19_SecondCommit ==
  /\ last.op = "cras_iodev_all_streams_written"
  /\ Attached(streams) = StreamIds
  /\ streams.written > 0
  /\ \A id \in StreamIds : streams.rows[id].base > streams.written
  /\ \E a, b \in StreamIds :
       cras_iodev_stream_offset(streams, a)
         # cras_iodev_stream_offset(streams, b)

\* C20: for any sequence of cras_bt_device_get_sco and
\* cras_bt_device_put_sco calls on one BT device, the SCO connection is up
\* exactly while the number of successful gets exceeds the number of puts:
\* only the first get establishes the socket, only the put that brings the
\* count to zero tears it down, and a failed get leaves the count unchanged.
C20_ScoRefCount ==
  [][/\ sco'.up <=> sco'.gets > sco'.puts
     /\ sco'.sco_ref_count = sco'.gets - sco'.puts
     /\ (~sco.up /\ sco'.up)
        => /\ last'.op = "cras_bt_device_get_sco"
           /\ sco.sco_ref_count = 0
           /\ sco'.sco_ref_count = 1
     /\ (sco.up /\ ~sco'.up)
        => /\ last'.op = "cras_bt_device_put_sco"
           /\ sco.sco_ref_count = 1
           /\ sco'.sco_ref_count = 0
     /\ (sco.up /\ sco'.up) => sco'.codec = sco.codec
     /\ (last'.op = "cras_bt_device_get_sco" /\ sco'.rc # 0)
        => sco'.sco_ref_count = sco.sco_ref_count /\ sco'.up = sco.up]_vars

\* After two gets and one put the connection is still up.
C20_TwoGetsOnePut ==
  /\ last.op = "cras_bt_device_put_sco"
  /\ sco.gets = 2
  /\ sco.puts = 1
  /\ sco.up

\* The calls that complete a watch.
CompletionCalls ==
  {"cras_bt_device_remove_conflict", "cras_a2dp_start", "cras_hfp_ag_start",
   "cras_bt_device_set_nodes_plugged"}

Completes(c) == \E i \in 1..Len(c) : c[i].f \in CompletionCalls

\* The watch timers pending for records other than p.
OtherWatchTimers(t, p) ==
  SelectSeq(t, LAMBDA x : x.cb = "conn_watch_cb" /\ x.arg # p)

\* C21: on a tick of a device that advertises profiles, when supported and
\* connected differ for A2DP sink or for HFP hands-free, the tick
\* decrements retries_left by exactly one, arms exactly one timer of
\* CONN_WATCH_PERIOD_MS for the record if the result is not zero and none
\* if it is zero, makes none of the calls that complete a watch (conflict
\* removal, A2DP start, HFP-AG start, set_nodes_plugged), and leaves the
\* record in the list.
C21_DisagreeTick ==
  [][\A in \in TickInputs :
       (last'.op = "conn_watch_cb" /\ Advertises(in) /\ Disagrees(in)
        /\ ConnWatchTimerFires(in))
       => LET p == last'.policy
              left == watch_recs'[p].retries_left
          IN /\ left = watch_recs[p].retries_left - 1
             /\ left # 0
                => /\ Len(WatchTimers(tm', p)) = 1
                   /\ WatchTimers(tm', p)[1].left = CONN_WATCH_PERIOD_MS
                   /\ watch_recs'[p].timer = WatchTimers(tm', p)[1].id
             /\ left = 0 => WatchTimers(tm', p) = <<>>
             /\ OtherWatchTimers(tm', p) = OtherWatchTimers(tm, p)
             /\ ~Completes(calls')
             /\ watch_recs'[p].live
             /\ watch_recs'[p].device = last'.dev
             /\ ListOf(watch_recs', conn_watch_policies')
                  = ListOf(watch_recs, conn_watch_policies)
             /\ DL_SEARCH_SCALAR(watch_recs', conn_watch_policies',
                                 last'.dev) = p]_vars

\* The second tick of a watch has asked the registry for the missing
\* profile and has armed the next tick.
C21_SecondRetryArmed ==
  /\ last.op = "conn_watch_cb"
  /\ watch_recs[last.policy].live
  /\ watch_recs[last.policy].retries_left = CONN_WATCH_MAX_RETRIES - 2
  /\ Len(WatchTimers(tm, last.policy)) = 1
  /\ Connects(calls) # <<>>

\* Every profile the device supports among A2DP sink and HFP hands-free is
\* connected.
SupportedConnected(in) ==
  (in.profiles \cap {"A2DP_SINK", "HFP_HANDSFREE"}) \subseteq in.connected

\* C22: a tick of a device that advertises a profile, on which every
\* profile it supports among A2DP sink and HFP hands-free is connected,
\* completes the watch (conflict removal, the starts, nodes plugged, record
\* freed) and consumes no retry, also when a profile the device does not
\* support is reported connected.
C22_SupportedConnectedCompletes ==
  [][\A in \in TickInputs :
       (last'.op = "conn_watch_cb" /\ Advertises(in)
        /\ SupportedConnected(in) /\ ConnWatchTimerFires(in))
       => /\ Effects(calls') = SatisfiedCalls(last'.dev, in)
          /\ WatchRemoved(last'.dev, last'.policy)
          /\ ~Logged(calls', "conn_watch_retries: %d")]_vars

\* C23: when cras_hfp_ag_start fails on a Satisfied tick, the tick
\* schedules a suspend for the device with reason HFP_AG_START_FAILURE and
\* delay 0, or leaves the suspend that is already pending as it is; it
\* still marks the nodes plugged, as its last call, and removes the watch
\* record; cras_a2dp_start, if A2DP sink is connected, was called before
\* cras_hfp_ag_start.
C23_HfpAgStartFails ==
  [][\A in \in TickInputs :
       (last'.op = "conn_watch_cb" /\ Satisfied(in) /\ in.hfp_rc # 0
        /\ ConnWatchTimerFires(in))
       => LET d == last'.dev
              pending == TimersOf(tm', "suspend_cb", suspend_recs', d)
          IN /\ Effects(calls') = SatisfiedCalls(d, in)
             /\ Logged(calls', "Start audio gateway failed, rc %d")
             /\ Len(pending) = 1
             /\ IF DL_SEARCH_SCALAR(suspend_recs, suspend_policies, d) # NULL
                THEN SuspendUntouched
                ELSE /\ pending[1].left = 0
                     /\ suspend_recs'[pending[1].arg].suspend_reason
                          = HFP_AG_START_FAILURE
                     /\ Records(suspend_recs', d) = {pending[1].arg}
                     /\ TimersFor(tm', "suspend_cb")
                          = Append(TimersFor(tm, "suspend_cb"), pending[1])
             /\ WatchRemoved(d, last'.policy)]_vars

\* A tick has started A2DP, failed to start the HFP audio gateway, and has
\* left a suspend pending for that reason.
C23_StartFailedSuspendPending ==
  /\ last.op = "conn_watch_cb"
  /\ Logged(calls, "Start audio gateway failed, rc %d")
  /\ Len(Effects(calls)) = 4
  /\ ~watch_recs[last.policy].live
  /\ \E s \in Slots :
       /\ suspend_recs[s].live
       /\ suspend_recs[s].device = last.dev
       /\ suspend_recs[s].suspend_reason = HFP_AG_START_FAILURE

\* The timers pending for device d, of every callback.
PolicyTimers(t, sw, su, wa, d) ==
  TimersOf(t, "profile_switch_delay_cb", sw, d)
  \o TimersOf(t, "suspend_cb", su, d)
  \o TimersOf(t, "conn_watch_cb", wa, d)

\* The steps that may arm a timer for a device: a switch, a schedule or a
\* start for it, and the watch tick that re-arms itself or times out.
Arming == {"switch_profile", "schedule_suspend", "start_connection_watch",
           "conn_watch_cb"}

\* C24: cras_bt_policy_remove_device(d) removes d's profile-switch,
\* suspend and connection-watch records and cancels their timers: after it
\* no record and no timer is left for d, and a timer for d appears again
\* only by a switch, a schedule or a start for d, so that no callback runs
\* for d before that.
C24_RemoveDevice ==
  [][/\ last'.op = "remove_device"
        => LET d == last'.dev
           IN /\ Records(switch_recs', d) = {}
              /\ Records(suspend_recs', d) = {}
              /\ Records(watch_recs', d) = {}
              /\ PolicyTimers(tm', switch_recs', suspend_recs', watch_recs',
                              d) = <<>>
     /\ \A d \in Devices :
          Len(PolicyTimers(tm', switch_recs', suspend_recs', watch_recs', d))
            > Len(PolicyTimers(tm, switch_recs, suspend_recs, watch_recs, d))
          => last'.op \in Arming /\ last'.dev = d]_vars

\* C25: a SCHEDULE_SUSPEND or SWITCH_PROFILE message for a device that is
\* dispatched after cras_bt_policy_remove_device ran for the device (here:
\* as the very next step of the main thread, so that the message was in
\* flight when the device was removed) is dropped silently: the dispatch
\* creates no record, arms no timer and makes no call.
C25_StaleMessageDropped ==
  [][(/\ last.op = "remove_device"
      /\ dispatched' # dispatched
      /\ dispatched'[Len(dispatched')].sent.device = last.dev
      /\ dispatched'[Len(dispatched')].sent.f
           \in {"schedule_suspend", "switch_profile"})
     => /\ UNCHANGED <<switch_recs, profile_switch_policies, suspend_recs,
                       suspend_policies, watch_recs, conn_watch_policies,
                       tm>>
        /\ calls' = <<>>]_vars

\* C26: during a watch the request to connect the missing profile is made
\* only on every third retry, that is on the ticks that find retries_left
\* divisible by 3 (the 1st, 4th, 7th, ... tick of the watch, the first one
\* as in the spec's scenario of a happy connect), not on every tick.
C26_ConnectEveryThirdRetry ==
  [][(last'.op = "conn_watch_cb" /\ Connects(calls') # <<>>)
     => watch_recs[last'.policy].retries_left % 3 = 0]_vars

\* The records on a list, as a set.
OnList(mem, head) ==
  {ListOf(mem, head)[i] : i \in 1..Len(ListOf(mem, head))}

\* Every pending timer of callback cb has as argument a record that is on
\* the list.
TimersOnList(cb, mem, head) ==
  \A i \in 1..Len(tm) :
    tm[i].cb = cb => tm[i].arg \in OnList(mem, head) /\ mem[tm[i].arg].live

\* Every record on the list has exactly one pending timer of callback cb.
OneTimerEach(cb, mem, head) ==
  \A p \in OnList(mem, head) :
    Cardinality({i \in 1..Len(tm) : tm[i].cb = cb /\ tm[i].arg = p}) = 1

\* C27: between the operations of the main thread, every pending policy
\* timer has as argument a record that is on the matching policy list, and
\* every suspend record and every profile-switch record on its list has
\* exactly one pending timer.  (A cancelled timer is not pending, and only
\* pending timers are dispatched.)
C27_TimersMatchRecords ==
  /\ TimersOnList("profile_switch_delay_cb", switch_recs,
                  profile_switch_policies)
  /\ TimersOnList("suspend_cb", suspend_recs, suspend_policies)
  /\ TimersOnList("conn_watch_cb", watch_recs, conn_watch_policies)
  /\ OneTimerEach("profile_switch_delay_cb", switch_recs,
                  profile_switch_policies)
  /\ OneTimerEach("suspend_cb", suspend_recs, suspend_policies)

\* C28: between the operations of the main thread, every record on
\* conn_watch_policies has retries_left within 0..CONN_WATCH_MAX_RETRIES
\* and has a timer armed (policy->timer set, and that one timer pending in
\* the timer manager) if and only if retries_left >= 1.
C28_RetriesAndTimer ==
  \A p \in OnList(watch_recs, conn_watch_policies) :
    /\ watch_recs[p].retries_left \in 0..CONN_WATCH_MAX_RETRIES
    /\ Len(WatchTimers(tm, p)) = (IF watch_recs[p].retries_left >= 1
                                  THEN 1 ELSE 0)
    /\ watch_recs[p].timer # NULL <=> watch_recs[p].retries_left >= 1
    /\ watch_recs[p].timer # NULL
       => WatchTimers(tm, p)[1].id = watch_recs[p].timer

\* A watch has ticked down to its last retry and is armed for the final
\* tick.
C28_LastRetryArmed ==
  /\ last.op = "conn_watch_cb"
  /\ ticks[last.dev] = CONN_WATCH_MAX_RETRIES - 1
  /\ last.policy \in OnList(watch_recs, conn_watch_policies)
  /\ watch_recs[last.policy].retries_left = 1
  /\ Len(WatchTimers(tm, last.policy)) = 1

\* The watch record p has timed out: it is on the list with no retry left
\* and no timer.
TimedOut(mem, head, t, p) ==
  /\ p \in OnList(mem, head)
  /\ mem[p].live
  /\ mem[p].retries_left = 0
  /\ mem[p].timer = NULL
  /\ WatchTimers(t, p) = <<>>

\* The steps that end a timed-out watch of a device.
EndsWatch == {"stop_connection_watch", "remove_device",
              "start_connection_watch"}

\* C29: the tick that times a watch out leaves its record on
\* conn_watch_policies with retries_left = 0 and no timer, and the record
\* stays so through every later step, the firing of the suspend included,
\* except cras_bt_policy_stop_connection_watch,
\* cras_bt_policy_remove_device and a restart of the watch for its device.
C29_TimedOutRecordStays ==
  [][/\ (last'.op = "conn_watch_cb"
         /\ Logged(calls', "Connection watch timeout."))
        => TimedOut(watch_recs', conn_watch_policies', tm', last'.policy)
     /\ \A p \in Slots :
          (/\ TimedOut(watch_recs, conn_watch_policies, tm, p)
           /\ ~(last'.op \in EndsWatch
                /\ last'.dev = watch_recs[p].device))
          => /\ TimedOut(watch_recs', conn_watch_policies', tm', p)
             /\ watch_recs'[p].device = watch_recs[p].device]_vars

\* The suspend of a watch that timed out has fired, and the watch record
\* is still on the list.
C29_SuspendFiredRecordKept ==
  /\ last.op = "suspend_cb"
  /\ last.reason = CONN_WATCH_TIME_OUT
  /\ \E p \in Slots :
       /\ TimedOut(watch_recs, conn_watch_policies, tm, p)
       /\ watch_recs[p].device = last.dev

\* What a policy record holds besides its links.
Payload(mem, p) ==
  [device |-> mem[p].device, timer |-> mem[p].timer,
   suspend_reason |-> mem[p].suspend_reason,
   retries_left |-> mem[p].retries_left]

\* The records of device d on a list, with what they hold.
RecordsOnList(mem, head, d) ==
  {[rec |-> p, data |-> Payload(mem, p)] :
     p \in {q \in OnList(mem, head) : mem[q].device = d}}

\* A step leaves the records and the pending timers of device d as they
\* are, in all three policy lists.
Untouched(d) ==
  /\ RecordsOnList(switch_recs', profile_switch_policies', d)
       = RecordsOnList(switch_recs, profile_switch_policies, d)
  /\ RecordsOnList(suspend_recs', suspend_policies', d)
       = RecordsOnList(suspend_recs, suspend_policies, d)
  /\ RecordsOnList(watch_recs', conn_watch_policies', d)
       = RecordsOnList(watch_recs, conn_watch_policies, d)
  /\ PolicyTimers(tm', switch_recs', suspend_recs', watch_recs', d)
       = PolicyTimers(tm, switch_recs, suspend_recs, watch_recs, d)

\* C30: every policy operation on a device (a request for it or one of its
\* timer callbacks) leaves the records and the pending timers of every
\* other device unchanged in all three policy lists.
C30_OtherDevicesUntouched ==
  [][\A b \in Devices :
       (last'.dev \in Devices /\ last'.dev # b) => Untouched(b)]_vars

\* The outcomes of a watch of device d, as the tick that ends it leaves
\* them: Satisfied (the profiles started, the record removed), Idle (no
\* profile, no call, the record removed), TimedOut (the time-out logged and
\* a suspend pending for the device).
WatchSatisfied(d) ==
  /\ last.op = "conn_watch_cb" /\ last.dev = d
  /\ Completes(calls)
  /\ DL_SEARCH_SCALAR(watch_recs, conn_watch_policies, d) = NULL

WatchIdle(d) ==
  /\ last.op = "conn_watch_cb" /\ last.dev = d
  /\ calls = <<>>
  /\ DL_SEARCH_SCALAR(watch_recs, conn_watch_policies, d) = NULL

WatchTimedOut(d) ==
  /\ last.op = "conn_watch_cb" /\ last.dev = d
  /\ Logged(calls, "Connection watch timeout.")
  /\ TimersOf(tm, "suspend_cb", suspend_recs, d) # <<>>
  /\ WatchTimers(tm, last.policy) = <<>>

\* C31: if the timer manager fires every armed timer and the watch is not
\* restarted, a started watch ticks at most CONN_WATCH_MAX_RETRIES times
\* and reaches one of the outcomes Satisfied, Idle and TimedOut.
C31_WatchEnds ==
  /\ [](\A d \in Devices : ticks[d] <= CONN_WATCH_MAX_RETRIES)
  /\ \A d \in WatchedDevices :
       (last.op = "start_connection_watch" /\ last.dev = d)
         ~> (WatchSatisfied(d) \/ WatchIdle(d) \/ WatchTimedOut(d))

\* A watch has been satisfied on its last tick.
C31_SatisfiedOnLastTick ==
  \E d \in WatchedDevices :
    WatchSatisfied(d) /\ ticks[d] = CONN_WATCH_MAX_RETRIES

\* The three public entry points and the handler function each asks for.
SenderOps ==
  [cras_bt_policy_switch_profile |-> "switch_profile",
   cras_bt_policy_schedule_suspend |-> "schedule_suspend",
   cras_bt_policy_cancel_suspend |-> "cancel_suspend"]

\* A step posts one message for the handler function f and device d: one
\* sender's messages gain it at their end, the others' are unchanged.
Posts(f, d) ==
  \E s \in Senders :
    /\ Len(bus'[s]) = Len(bus[s]) + 1
    /\ SubSeq(bus'[s], 1, Len(bus[s])) = bus[s]
    /\ bus'[s][Len(bus'[s])].sent.f = f
    /\ bus'[s][Len(bus'[s])].msg.device = d
    /\ \A o \in Senders \ {s} : bus'[o] = bus[o]

PolicyLists ==
  <<switch_recs, profile_switch_policies, suspend_recs, suspend_policies,
    watch_recs, conn_watch_policies>>

\* C32: a call of cras_bt_policy_switch_profile,
\* cras_bt_policy_schedule_suspend or cras_bt_policy_cancel_suspend posts
\* one message and does nothing else: the three policy lists, their records
\* and the timers are unchanged, no call is made to DEVLIST, the registry or
\* the timer manager, and nothing is dispatched; the lists and the calls
\* change only in the steps of the main thread (a dispatched message, a
\* timer callback).
C32_SendersOnlyPost ==
  [][/\ (last'.op \in DOMAIN SenderOps) =>
          (/\ UNCHANGED <<PolicyLists, tm, status, handlers, dispatched>>
           /\ calls' = <<>>
           /\ Posts(SenderOps[last'.op], last'.dev))
     /\ (calls' # <<>> \/ PolicyLists' # PolicyLists) =>
          (last'.op \in {"switch_profile", "schedule_suspend",
                         "cancel_suspend", "profile_switch_delay_cb",
                         "suspend_cb"})]_vars

\* cras_bt_policy_cancel_suspend has returned and the suspend of its device
\* is still pending, its message waiting on the bus.
C32_CancelPostedSuspendPending ==
  /\ last.op = "cras_bt_policy_cancel_suspend"
  /\ TimersOf(tm, "suspend_cb", suspend_recs, last.dev) # <<>>
  /\ \E s \in Senders :
       /\ bus[s] # <<>>
       /\ bus[s][Len(bus[s])].msg.cmd = BT_POLICY_CANCEL_SUSPEND

\* The step has armed a profile-switch timer for device d: after it a timer
\* is pending that is due in the full PROFILE_SWITCH_DELAY_MS, and it is the
\* timer of a live record of d.
ArmsSwitchTimer(d) ==
  \E i \in 1..Len(tm') :
    /\ tm'[i].cb = "profile_switch_delay_cb"
    /\ tm'[i].left = PROFILE_SWITCH_DELAY_MS
    /\ switch_recs'[tm'[i].arg].live
    /\ switch_recs'[tm'[i].arg].device = d
    /\ switch_recs'[tm'[i].arg].timer = tm'[i].id

\* C33: switch_profile arms or re-arms the 500 ms profile-switch timer if
\* and only if the device has an output iodev when the message is
\* dispatched; without an output iodev no profile-switch record or timer is
\* created, and with no iodev at all no DEVLIST call is made.
C33_ArmsIffOutput ==
  [][last'.op = "switch_profile" =>
       /\ last'.has_output => ArmsSwitchTimer(last'.dev)
       /\ ~last'.has_output =>
            UNCHANGED <<switch_recs, profile_switch_policies, tm>>
       /\ (~last'.has_output /\ ~last'.has_input) => calls' = <<>>]_vars

\* The active node of the iodev, when it has one.
ActiveNode == gain.node

HasActiveNode == gain.iodev.active_node # NULL

\* The device's software_volume_needed flag or its active node's is set.
SoftwareVolumeFlagSet ==
  \/ gain.iodev.software_volume_needed # 0
  \/ HasActiveNode /\ ActiveNode.software_volume_needed # 0

Returned(f) == last'.op = f /\ gain'.result.f = f

\* C34: software volume applies to an iodev iff the device's flag or its
\* active node's flag is set; cras_iodev_maximum_software_gain returns the
\* active node's max_software_gain in that case when an active node exists
\* and 0 otherwise; cras_iodev_adjust_active_node_gain returns the system
\* gain plus the active node's capture_gain; without an active node both
\* cras_iodev_adjust_active_node_gain and
\* cras_iodev_adjust_active_node_volume return the system value unchanged.
C34_SoftwareGainQueries ==
  [][/\ Returned("cras_iodev_software_volume_needed") =>
          ((gain'.result.value # 0) <=> SoftwareVolumeFlagSet)
     /\ Returned("cras_iodev_maximum_software_gain") =>
          (gain'.result.value =
             IF SoftwareVolumeFlagSet /\ HasActiveNode
             THEN ActiveNode.max_software_gain
             ELSE 0)
     /\ Returned("cras_iodev_adjust_active_node_gain") =>
          (gain'.result.value =
             IF HasActiveNode
             THEN gain.system_gain + ActiveNode.capture_gain
             ELSE gain.system_gain)
     /\ (Returned("cras_iodev_adjust_active_node_volume")
         /\ ~HasActiveNode) =>
          (gain'.result.value = gain.system_volume)
     /\ last'.op \in {"cras_iodev_software_volume_needed",
                      "cras_iodev_maximum_software_gain",
                      "cras_iodev_adjust_active_node_gain",
                      "cras_iodev_adjust_active_node_volume"} =>
          (gain'.result.f = last'.op)]_vars

\* Only the active node's flag is set, and the maximum software gain
\* returned is the node's, which is not 0.
C34_NodeFlagAlone ==
  /\ gain.result.f = "cras_iodev_maximum_software_gain"
  /\ gain.iodev.software_volume_needed = 0
  /\ HasActiveNode
  /\ ActiveNode.software_volume_needed # 0
  /\ gain.result.value = ActiveNode.max_software_gain
  /\ gain.result.value # 0

====
